---- MODULE Spec2Model ----
(***************************************************************************)
(* State-machine model of the presentation timing engine                   *)
(* (usePresentationTimer, src/src/hooks/useFullscreen.ts) and of the        *)
(* presentation coordinator (PresentationScreen, src/unnamed/part_001)      *)
(* with the capture hook it drives (src/src/hooks/useMediaRecorder.ts).     *)
(*                                                                         *)
(* Time is the integer millisecond clock performance.now().  A pending     *)
(* requestAnimationFrame callback is modelled by rafCurrent (the callback   *)
(* whose id is held in rafIdRef is still pending) and rafOrphans (pending   *)
(* callbacks whose id rafIdRef no longer holds, so that no                  *)
(* cancelAnimationFrame(rafIdRef.current) can reach them).                  *)
(***************************************************************************)
EXTENDS Integers, Sequences, FiniteSets, TLC

\* ------------------------------------------------------------------ constants
SLIDE_DURATION_MS == 15000
TOTAL_SLIDES == 20
TOTAL_DURATION_MS == SLIDE_DURATION_MS * TOTAL_SLIDES
\* The display hold of handleFinish (setTimeout).
HOLD_MS == 2000

\* The largest capture surface (MAX_W, MAX_H of startRecording).
MAX_W == 1280
MAX_H == 720

\* ------------------------------------------------------------------ bounds
\* Horizon of the wall clock.
MaxNow == 320000
\* How many seeks (goToSlide / nextSlide / prevSlide) one run makes.
MaxSeeks == 1
\* How many pause() calls that take effect one run makes.
MaxPauses == 2
\* How many reset() calls and autoStart changes one run makes.
MaxRestarts == 1
\* How many Escape presses and Stop clicks one run makes.
MaxTriggers == 2

\* How many timeslice data events the recorder delivers in one run.
MaxData == 1
\* How many image loads a client of the capture hook leaves pending.
MaxLoads == 2
\* The timer state of an overlay a client of the capture hook passes, other
\* than the published one: the middle of the first slide.
HookStamp == SLIDE_DURATION_MS \div 2

\* Widths and heights of the first slide of a deck.
SlideWidths == {13, 640, 1280, 1281, 1920, 2560, 3840, 7680}
SlideHeights == {1, 29, 360, 720, 721, 1080, 1440, 1441, 2160}
\* The first slide of the decks whose size does not matter.
DefaultSlide == [width |-> 1920, height |-> 1080]
\* No canvas has been made.
NoCanvas == [width |-> 0, height |-> 0]

\* The overlays given to drawOverlayOnCanvas: slide indexes and countdowns
\* in and out of their ranges.
OverlaySlides == (0 - 1) .. (TOTAL_SLIDES + 1)
OverlaySeconds == (0 - 2) .. 17
\* No overlay has been drawn.
NoOverlayInfo == [currentSlide |-> 0, totalSlides |-> 0, slideSecondsLeft |-> 0]

\* Wall-clock advances between two events (ms).
Deltas == {100000, 114600}
\* Arguments given to goToSlide.
SeekTargets == {0 - 3, 5, 99}

VARIABLES
  now,            \* performance.now()
  mounted,        \* the hook's component is mounted
  autoStart,      \* the autoStart argument of the last effect run
  startTime,      \* startTimeRef
  pausedAt,       \* pausedAtRef: <<>> is null, <<t>> is the timestamp t
  totalPausedMs,  \* totalPausedMsRef
  manualOffset,   \* manualOffsetRef
  hasFinished,    \* hasFinishedRef
  rafCurrent,     \* the frame callback whose id is in rafIdRef is pending
  rafOrphans,     \* pending frame callbacks rafIdRef does not reference
  timerState,     \* the published React state
  finishCalls,    \* history: onFinish invocations since the last start/seek/reset
  finishTicks,    \* history: ticks that computed isFinished since the last start/seek/reset
  lastSeek,       \* history: <<>>, or <<slide, ms run since>> of a seek no tick has followed
  seeks, pauses, restarts, \* history: operations made so far (bounded)
  staleFrame,     \* history: a pending frame was scheduled before the last seek
  firedSinceReset,\* history: onFinish was invoked since the last start or reset()
  idealElapsed,   \* history: what a stopwatch driven by the same calls shows:
                  \* it runs with the clock while not paused, a start or reset
                  \* zeroes it and a seek sets it to the target slide's start
  \* --- PresentationScreen and the capture hook it owns
  props,          \* recordingEnabled, manageFullscreen, onFinishGiven, audioGiven
  waiting,        \* the waiting state (before the start gesture)
  recorderStarted,\* recorderStartedRef
  recorder,       \* recorderRef: "null", or the device state of the recorder it holds
  micPending,     \* startRecording is awaiting getUserMedia
  isRecording,    \* the capture hook's isRecording state
  stopPhase,      \* an unresolved stopRecording: "idle", "awaitStopEvent", "awaitFix"
  awaiter,        \* what awaits that stopRecording: "none", "exit", "finish"
  holdDue,        \* due times of the pending display-hold timeouts
  fsThen,         \* pending exitFullscreen().then(onExit) continuations
  stopCalls,      \* history: recorder.stopRecording() calls
  exitCalls,      \* history: onExit() calls
  finishNotes,    \* history: onFinish() calls
  fsExits,        \* history: exitFullscreen() calls made to relinquish control
  delivered,      \* history: onRecordingComplete(blob) calls
  triggers,       \* history: Escape presses and Stop clicks
  cancelled,      \* history: Escape or Stop was used on a started presentation
  tickedAfterCancel, \* history: a tick ran after that
  \* --- the capture hook's surface, device and data
  capability,     \* what the runtime supports: "none", "mp4" or "webm"
  loadLag,        \* the slide images take time to load (else they load at once)
  micAnswer,      \* what a microphone request will get: "grant" or "deny"
  fixAnswer,      \* how a fixWebmDuration call will settle: "ok" or "fail"
  firstSlide,     \* slides[0]: the width and height of the first slide
  surface,        \* canvasRef / ctxRef / canvasStreamRef are set (canvas tracks live)
  audioHeld,      \* audioStreamRef holds a stream (audio tracks live)
  lastImage,      \* lastImageRef is set
  pendingLoads,   \* images loading for drawSlide, oldest first: [stamp, stale]
  drawnStamp,     \* totalElapsed of the overlay now on the surface, -1 if none
                  \* (or no surface)
  overlay,        \* the OverlayInfo drawn last (NoOverlayInfo: none is drawn)
  segments,       \* the fill of each progress segment drawn with it, in
                  \* fifteenths of the segment's width
  prevSeconds,    \* prevSecondsRef, while the draw effects can read it
  micDenied,      \* the capture hook's micDenied state
  chunks,         \* chunksRef: the data events kept, in the order pushed
  blob,           \* the blob held by a running onstop handler
  dataEvents,     \* history: data events delivered so far (bounded)
  arrivals,       \* history: the session's non-empty data events, in arrival order
  lastResult,     \* history: what the last resolved stopRecording() resolved to
  fixed,          \* history: the duration pass of that result: "no" (not
                  \* made), "done" or "failed"
  regressed,      \* history: an overlay older than one already drawn was drawn
  redundantDraw,  \* history: the last render gave drawSlide the slide index
                  \* the render before it had already given
  drawnSlideIdx,  \* history: slide index the draw effect last gave drawSlide, -1
                  \* when the last render made no such call
  startCalls,     \* history: startRecording() calls
  canvasSize,     \* history: width and height of the canvas startRecording last made
  micRequested,   \* history: getUserMedia was called
  sessionErrored  \* history: the recorder reported a runtime error

timerVars == <<now, mounted, autoStart, startTime, pausedAt, totalPausedMs,
               manualOffset, hasFinished, rafCurrent, rafOrphans, timerState>>
histVars == <<finishCalls, finishTicks, lastSeek, seeks, pauses, restarts,
              staleFrame, firedSinceReset, idealElapsed>>
drawVars == <<pendingLoads, drawnStamp, overlay, segments, prevSeconds, regressed,
              redundantDraw, drawnSlideIdx>>
dataVars == <<chunks, blob, dataEvents, arrivals, lastResult, fixed>>
captureVars == <<capability, loadLag, micAnswer, fixAnswer, firstSlide, surface, audioHeld, lastImage, micDenied, startCalls, canvasSize,
                 micRequested, sessionErrored, drawVars, dataVars>>
screenVars == <<props, waiting, recorderStarted, recorder, micPending, isRecording,
                stopPhase, awaiter, holdDue, fsThen, stopCalls, exitCalls,
                finishNotes, fsExits, delivered, triggers, cancelled,
                tickedAfterCancel, captureVars>>
vars == <<timerVars, histVars, screenVars>>

NULL == <<>>
Some(t) == <<t>>

Min(a, b) == IF a < b THEN a ELSE b
Max(a, b) == IF a > b THEN a ELSE b

\* ------------------------------------------------------------------ timer
\* getEffectiveElapsed, on explicit values of the refs.
ElapsedOf(clock, pa, st, tp, mo) ==
  (IF pa = NULL THEN clock ELSE pa[1]) - st - tp + mo

GetEffectiveElapsed ==
  ElapsedOf(now, pausedAt, startTime, totalPausedMs, manualOffset)

\* Variant: the upper clamp is left out.
ClampElapsed_NoUpper(e) == Max(0, e)

ClampElapsed(e) == Max(0, Min(e, TOTAL_DURATION_MS))

\* Variant: the slide index is not capped at the last slide.
SlideOf_NoCap(clamped) == clamped \div SLIDE_DURATION_MS

SlideOf(clamped) == Min(clamped \div SLIDE_DURATION_MS, TOTAL_SLIDES - 1)

\* Variant: finished only strictly past the total duration.
IsFinishedAt_Strict(clamped) == clamped > TOTAL_DURATION_MS

IsFinishedAt(clamped) == clamped >= TOTAL_DURATION_MS

\* Variant: each tick adds one frame (16 ms) to the elapsed time it
\* published before.
TickState_CountsFrames(e, paused) ==
  LET clampedElapsed == ClampElapsed(timerState.totalElapsed + 16)
      currentSlide == SlideOf(clampedElapsed)
  IN [currentSlide |-> currentSlide,
      slideElapsed |-> clampedElapsed - currentSlide * SLIDE_DURATION_MS,
      totalElapsed |-> clampedElapsed,
      isPaused |-> paused,
      isFinished |-> IsFinishedAt(clampedElapsed)]

\* The state a tick publishes for elapsed time e.
TickState(e, paused) ==
  LET clampedElapsed == ClampElapsed(e)
      currentSlide == SlideOf(clampedElapsed)
  IN [currentSlide |-> currentSlide,
      slideElapsed |-> clampedElapsed - currentSlide * SLIDE_DURATION_MS,
      totalElapsed |-> clampedElapsed,
      isPaused |-> paused,
      isFinished |-> IsFinishedAt(clampedElapsed)]

\* Variant: the fired-finish flag is not consulted.
TickFires_NoGuard(isFinished, hf) == isFinished

\* The finish branch of tick: the callback fires.
TickFires(isFinished, hf) == isFinished /\ ~hf

\* The rescheduling branch of tick.
TickSchedules(isFinished, paused) == ~isFinished /\ ~paused

InitialState ==
  [currentSlide |-> 0, slideElapsed |-> 0, totalElapsed |-> 0,
   isPaused |-> FALSE, isFinished |-> FALSE]

\* requestAnimationFrame(tick); rafIdRef.current = its id.
RequestFrame(cur, orphans) ==
  [cur |-> TRUE, orphans |-> IF cur THEN orphans + 1 ELSE orphans]

\* Variant: the pending frame is not cancelled.
CancelFrame_Noop(cur, orphans) == [cur |-> cur, orphans |-> orphans]

\* cancelAnimationFrame(rafIdRef.current).
CancelFrame(cur, orphans) == [cur |-> FALSE, orphans |-> orphans]

\* The body of tick(), run with the refs as given; raf is the frame state
\* at the call, fc and ft the history so far.
TickBody(e, pa, hf, raf, fc, ft) ==
  LET s == TickState(e, pa # NULL)
      fires == TickFires(s.isFinished, hf)
      next == IF ~fires /\ TickSchedules(s.isFinished, pa # NULL)
              THEN RequestFrame(raf.cur, raf.orphans) ELSE raf
  IN /\ timerState' = s
     /\ hasFinished' = (hf \/ fires)
     /\ rafCurrent' = next.cur
     /\ rafOrphans' = next.orphans
     /\ finishCalls' = IF fires THEN fc + 1 ELSE fc
     /\ finishTicks' = IF s.isFinished THEN ft + 1 ELSE ft
     /\ firedSinceReset' = (firedSinceReset \/ fires)
     /\ lastSeek' = NULL

\* A pending frame callback runs tick.
Tick ==
  /\ UNCHANGED screenVars
  /\ rafCurrent \/ rafOrphans > 0
  /\ \E which \in {"current", "orphan"} :
       /\ which = "current" => rafCurrent
       /\ which = "orphan" => rafOrphans > 0
       /\ TickBody(GetEffectiveElapsed, pausedAt, hasFinished,
                   IF which = "current"
                   THEN [cur |-> FALSE, orphans |-> rafOrphans]
                   ELSE [cur |-> rafCurrent, orphans |-> rafOrphans - 1],
                   finishCalls, finishTicks)
       /\ staleFrame' = (staleFrame /\ which = "orphan")
  /\ UNCHANGED <<now, mounted, autoStart, startTime, idealElapsed, pausedAt, totalPausedMs,
                 manualOffset, seeks, pauses, restarts>>

\* Variant: a frame is requested whatever autoStart is.
StartEffect_AlwaysSchedules(a, raf, ts) ==
  /\ startTime' = now
  /\ idealElapsed' = 0
  /\ totalPausedMs' = 0
  /\ manualOffset' = 0
  /\ hasFinished' = FALSE
  /\ autoStart' = a
  /\ pausedAt' = IF a THEN NULL ELSE Some(now)
  /\ rafCurrent' = RequestFrame(raf.cur, raf.orphans).cur
  /\ rafOrphans' = RequestFrame(raf.cur, raf.orphans).orphans
  /\ timerState' = IF a THEN ts ELSE [ts EXCEPT !.isPaused = TRUE]
  /\ finishCalls' = 0
  /\ finishTicks' = 0
  /\ lastSeek' = NULL
  /\ staleFrame' = FALSE
  /\ firedSinceReset' = FALSE

\* The mount effect's body, for autoStart = a.
StartEffect(a, raf, ts) ==
  /\ startTime' = now
  /\ idealElapsed' = 0
  /\ totalPausedMs' = 0
  /\ manualOffset' = 0
  /\ hasFinished' = FALSE
  /\ autoStart' = a
  /\ IF a
     THEN /\ pausedAt' = NULL
          /\ rafCurrent' = RequestFrame(raf.cur, raf.orphans).cur
          /\ rafOrphans' = RequestFrame(raf.cur, raf.orphans).orphans
          /\ timerState' = ts
     ELSE /\ pausedAt' = Some(now)
          /\ rafCurrent' = raf.cur
          /\ rafOrphans' = raf.orphans
          /\ timerState' = [ts EXCEPT !.isPaused = TRUE]
  /\ finishCalls' = 0
  /\ finishTicks' = 0
  /\ lastSeek' = NULL
  /\ staleFrame' = FALSE
  /\ firedSinceReset' = FALSE

\* autoStart changes: the effect's cleanup runs, then its body.
AutoStartChange ==
  /\ UNCHANGED screenVars
  /\ mounted
  /\ restarts < MaxRestarts
  /\ restarts' = restarts + 1
  /\ StartEffect(~autoStart, CancelFrame(rafCurrent, rafOrphans), timerState)
  /\ UNCHANGED <<now, mounted, seeks, pauses>>

\* Unmount: the effect's cleanup.
Unmount ==
  /\ UNCHANGED screenVars
  /\ mounted
  /\ mounted' = FALSE
  /\ rafCurrent' = CancelFrame(rafCurrent, rafOrphans).cur
  /\ rafOrphans' = CancelFrame(rafCurrent, rafOrphans).orphans
  /\ staleFrame' = FALSE
  /\ UNCHANGED <<now, autoStart, startTime, idealElapsed, pausedAt, totalPausedMs,
                 manualOffset, hasFinished, timerState, finishCalls, finishTicks,
                 lastSeek, seeks, pauses, restarts, firedSinceReset>>

\* Variant: pause() does not cancel the pending frame.
pause_NoCancel ==
  IF pausedAt # NULL
  THEN UNCHANGED <<pausedAt, rafCurrent, rafOrphans, timerState>>
  ELSE /\ pausedAt' = Some(now)
       /\ UNCHANGED <<rafCurrent, rafOrphans>>
       /\ timerState' = [timerState EXCEPT !.isPaused = TRUE]

\* Variant: pause() does not return early when already paused.
pause_NoGuard ==
  /\ pausedAt' = Some(now)
  /\ rafCurrent' = CancelFrame(rafCurrent, rafOrphans).cur
  /\ rafOrphans' = CancelFrame(rafCurrent, rafOrphans).orphans
  /\ timerState' = [timerState EXCEPT !.isPaused = TRUE]

pause ==
  IF pausedAt # NULL
  THEN UNCHANGED <<pausedAt, rafCurrent, rafOrphans, timerState>>
  ELSE /\ pausedAt' = Some(now)
       /\ rafCurrent' = CancelFrame(rafCurrent, rafOrphans).cur
       /\ rafOrphans' = CancelFrame(rafCurrent, rafOrphans).orphans
       /\ timerState' = [timerState EXCEPT !.isPaused = TRUE]

\* Variant: resume() does not add the paused interval.
ResumeResult_NoAccumulate(pa, tp, cur, orphans, ts) ==
  IF pa = NULL
  THEN [pausedAt |-> pa, totalPausedMs |-> tp, cur |-> cur, orphans |-> orphans,
        timerState |-> ts]
  ELSE [pausedAt |-> NULL, totalPausedMs |-> tp,
        cur |-> RequestFrame(cur, orphans).cur,
        orphans |-> RequestFrame(cur, orphans).orphans,
        timerState |-> [ts EXCEPT !.isPaused = FALSE]]

\* Variant: resume() does not return early on a running timer.
ResumeResult_NoGuard(pa, tp, cur, orphans, ts) ==
  [pausedAt |-> NULL,
   totalPausedMs |-> IF pa = NULL THEN tp ELSE tp + (now - pa[1]),
   cur |-> RequestFrame(cur, orphans).cur,
   orphans |-> RequestFrame(cur, orphans).orphans,
   timerState |-> [ts EXCEPT !.isPaused = FALSE]]

\* resume(), on explicit values of the refs and the published state.
ResumeResult(pa, tp, cur, orphans, ts) ==
  IF pa = NULL
  THEN [pausedAt |-> pa, totalPausedMs |-> tp, cur |-> cur, orphans |-> orphans,
        timerState |-> ts]
  ELSE [pausedAt |-> NULL, totalPausedMs |-> tp + (now - pa[1]),
        cur |-> RequestFrame(cur, orphans).cur,
        orphans |-> RequestFrame(cur, orphans).orphans,
        timerState |-> [ts EXCEPT !.isPaused = FALSE]]

resume ==
  LET r == ResumeResult(pausedAt, totalPausedMs, rafCurrent, rafOrphans, timerState)
  IN /\ pausedAt' = r.pausedAt
     /\ totalPausedMs' = r.totalPausedMs
     /\ rafCurrent' = r.cur
     /\ rafOrphans' = r.orphans
     /\ timerState' = r.timerState

Pause ==
  /\ UNCHANGED screenVars
  /\ mounted
  /\ pausedAt = NULL => pauses < MaxPauses
  /\ pauses' = IF pausedAt = NULL THEN pauses + 1 ELSE pauses
  /\ pause
  /\ staleFrame' = (staleFrame /\ (rafCurrent' \/ rafOrphans' > 0))
  /\ UNCHANGED <<now, mounted, autoStart, startTime, idealElapsed, totalPausedMs, manualOffset,
                 hasFinished, finishCalls, finishTicks, lastSeek, seeks, restarts,
                 firedSinceReset>>

Resume ==
  /\ UNCHANGED screenVars
  /\ mounted
  /\ resume
  /\ UNCHANGED <<now, mounted, autoStart, startTime, manualOffset,
                 hasFinished, histVars>>

togglePause ==
  /\ pausedAt = NULL => pauses < MaxPauses
  /\ pauses' = IF pausedAt = NULL THEN pauses + 1 ELSE pauses
  /\ IF pausedAt # NULL
     THEN resume
     ELSE pause /\ UNCHANGED totalPausedMs
  /\ staleFrame' = (staleFrame /\ pausedAt # NULL)
  /\ UNCHANGED <<now, mounted, autoStart, startTime, idealElapsed, manualOffset,
                 hasFinished, finishCalls, finishTicks, lastSeek, seeks, restarts,
                 firedSinceReset>>

TogglePause ==
  /\ UNCHANGED screenVars
  /\ mounted
  /\ togglePause

\* goToSlide(targetIndex) on the timer's refs and published state.
\* Variant: the index is not clamped from below.
ClampIndex_NoLower(targetIndex) == Min(targetIndex, TOTAL_SLIDES - 1)

ClampIndex(targetIndex) == Max(0, Min(targetIndex, TOTAL_SLIDES - 1))

\* Variant: the fired-finish flag is left as it is.
goToSlide_KeepsFlag(targetIndex) ==
  LET clamped == ClampIndex(targetIndex)
      targetElapsed == clamped * SLIDE_DURATION_MS
      currentEffective == GetEffectiveElapsed
      offset == manualOffset + (targetElapsed - currentEffective)
  IN /\ manualOffset' = offset
     /\ idealElapsed' = targetElapsed
     /\ staleFrame' = (rafCurrent \/ rafOrphans > 0)
     /\ IF pausedAt # NULL
        THEN TickBody(ElapsedOf(now, pausedAt, startTime, totalPausedMs, offset),
                      pausedAt, hasFinished,
                      [cur |-> rafCurrent, orphans |-> rafOrphans], 0, 0)
        ELSE /\ hasFinished' = hasFinished
             /\ UNCHANGED <<rafCurrent, rafOrphans, timerState>>
             /\ finishCalls' = 0
             /\ finishTicks' = 0
             /\ lastSeek' = <<clamped, 0>>
             /\ UNCHANGED firedSinceReset

goToSlide(targetIndex) ==
  LET clamped == ClampIndex(targetIndex)
      targetElapsed == clamped * SLIDE_DURATION_MS
      currentEffective == GetEffectiveElapsed
      offset == manualOffset + (targetElapsed - currentEffective)
  IN /\ manualOffset' = offset
     /\ idealElapsed' = targetElapsed
     /\ staleFrame' = (rafCurrent \/ rafOrphans > 0)
     /\ IF pausedAt # NULL
        THEN TickBody(ElapsedOf(now, pausedAt, startTime, totalPausedMs, offset),
                      pausedAt, FALSE,
                      [cur |-> rafCurrent, orphans |-> rafOrphans], 0, 0)
        ELSE /\ hasFinished' = FALSE
             /\ UNCHANGED <<rafCurrent, rafOrphans, timerState>>
             /\ finishCalls' = 0
             /\ finishTicks' = 0
             /\ lastSeek' = <<clamped, 0>>
             /\ UNCHANGED firedSinceReset

GoToSlideWith(i) ==
  /\ UNCHANGED screenVars
  /\ mounted
  /\ seeks < MaxSeeks
  /\ seeks' = seeks + 1
  /\ goToSlide(i)
  /\ UNCHANGED <<now, mounted, autoStart, startTime, pausedAt, totalPausedMs,
                 pauses, restarts>>

GoToSlide == \E i \in SeekTargets : GoToSlideWith(i)

\* Variant: the slide is taken from the published state.
CurrentSlideNow_Published == timerState.currentSlide

\* The slide nextSlide / prevSlide derive from the present elapsed time.
CurrentSlideNow == Min(GetEffectiveElapsed \div SLIDE_DURATION_MS, TOTAL_SLIDES - 1)

NextSlide ==
  /\ UNCHANGED screenVars
  /\ mounted
  /\ seeks < MaxSeeks
  /\ seeks' = seeks + 1
  /\ IF CurrentSlideNow < TOTAL_SLIDES - 1
     THEN goToSlide(CurrentSlideNow + 1)
     ELSE UNCHANGED <<manualOffset, idealElapsed, hasFinished, rafCurrent, rafOrphans,
                      timerState, finishCalls, finishTicks, lastSeek,
                      staleFrame, firedSinceReset>>
  /\ UNCHANGED <<now, mounted, autoStart, startTime, pausedAt, totalPausedMs,
                 pauses, restarts>>

PrevSlide ==
  /\ UNCHANGED screenVars
  /\ mounted
  /\ seeks < MaxSeeks
  /\ seeks' = seeks + 1
  /\ IF CurrentSlideNow > 0
     THEN goToSlide(CurrentSlideNow - 1)
     ELSE UNCHANGED <<manualOffset, idealElapsed, hasFinished, rafCurrent, rafOrphans,
                      timerState, finishCalls, finishTicks, lastSeek,
                      staleFrame, firedSinceReset>>
  /\ UNCHANGED <<now, mounted, autoStart, startTime, pausedAt, totalPausedMs,
                 pauses, restarts>>

Reset ==
  /\ UNCHANGED screenVars
  /\ mounted
  /\ restarts < MaxRestarts
  /\ restarts' = restarts + 1
  /\ startTime' = now
  /\ idealElapsed' = 0
  /\ pausedAt' = NULL
  /\ totalPausedMs' = 0
  /\ manualOffset' = 0
  /\ hasFinished' = FALSE
  /\ timerState' = InitialState
  /\ LET c == CancelFrame(rafCurrent, rafOrphans)
     IN /\ rafCurrent' = RequestFrame(c.cur, c.orphans).cur
        /\ rafOrphans' = RequestFrame(c.cur, c.orphans).orphans
  /\ finishCalls' = 0
  /\ finishTicks' = 0
  /\ lastSeek' = NULL
  /\ staleFrame' = FALSE
  /\ firedSinceReset' = FALSE
  /\ UNCHANGED <<now, mounted, autoStart, seeks, pauses>>

\* Wall-clock time passes.
Advance ==
  /\ UNCHANGED screenVars
  /\ \E d \in Deltas : now + d <= MaxNow /\ now' = now + d
  /\ lastSeek' = IF lastSeek # NULL /\ pausedAt = NULL
                 THEN <<lastSeek[1], lastSeek[2] + (now' - now)>> ELSE lastSeek
  /\ idealElapsed' = IF pausedAt = NULL THEN idealElapsed + (now' - now)
                     ELSE idealElapsed
  /\ UNCHANGED <<mounted, autoStart, startTime, pausedAt, totalPausedMs,
                 manualOffset, hasFinished, rafCurrent, rafOrphans, timerState,
                 finishCalls, finishTicks, seeks, pauses, restarts,
                 staleFrame, firedSinceReset>>

\* The hook after the first run of its mount effect.
TimerInit ==
  /\ now = 0
  /\ mounted = TRUE
  /\ autoStart \in BOOLEAN
  /\ startTime = now
  /\ idealElapsed = 0
  /\ totalPausedMs = 0
  /\ manualOffset = 0
  /\ hasFinished = FALSE
  /\ pausedAt = IF autoStart THEN NULL ELSE Some(now)
  /\ rafCurrent = autoStart
  /\ rafOrphans = 0
  /\ timerState = [InitialState EXCEPT !.isPaused = ~autoStart]
  /\ finishCalls = 0
  /\ finishTicks = 0
  /\ lastSeek = NULL
  /\ seeks = 0 /\ pauses = 0 /\ restarts = 0
  /\ staleFrame = FALSE /\ firedSinceReset = FALSE

\* PresentationScreen after its first render and effects (waiting).
ScreenInit ==
  /\ waiting = TRUE
  /\ recorderStarted = FALSE
  /\ recorder = "null"
  /\ micPending = FALSE
  /\ isRecording = FALSE
  /\ stopPhase = "idle"
  /\ awaiter = "none"
  /\ holdDue = {}
  /\ fsThen = 0
  /\ stopCalls = 0 /\ exitCalls = 0 /\ finishNotes = 0 /\ fsExits = 0
  /\ delivered = 0 /\ triggers = 0
  /\ cancelled = FALSE /\ tickedAfterCancel = FALSE
  /\ surface = FALSE /\ audioHeld = FALSE /\ lastImage = FALSE
  /\ pendingLoads = <<>> /\ drawnStamp = 0 - 1 /\ prevSeconds = 0 - 1
  /\ micDenied = FALSE
  /\ chunks = <<>> /\ blob = <<>> /\ dataEvents = 0 /\ arrivals = <<>>
  /\ lastResult = [kind |-> "unset", data |-> <<>>]
  /\ fixed = "no"
  /\ regressed = FALSE /\ redundantDraw = FALSE /\ drawnSlideIdx = 0 - 1
  /\ startCalls = 0 /\ micRequested = FALSE /\ sessionErrored = FALSE
  /\ canvasSize = NoCanvas
  /\ overlay = NoOverlayInfo
  /\ segments = <<>>

\* The timer hook alone, driven by any client.
Init ==
  /\ TimerInit
  /\ ScreenInit
  /\ props = [recordingEnabled |-> FALSE, manageFullscreen |-> FALSE,
              onFinishGiven |-> TRUE, audioGiven |-> FALSE]
  /\ capability = "none"
  /\ loadLag = FALSE
  /\ micAnswer = "grant"
  /\ fixAnswer = "ok"
  /\ firstSlide = DefaultSlide

Next ==
  \/ Advance
  \/ Tick
  \/ Pause
  \/ Resume
  \/ TogglePause
  \/ GoToSlide
  \/ NextSlide
  \/ PrevSlide
  \/ Reset
  \/ AutoStartChange
  \/ Unmount

Spec == Init /\ [][Next]_vars

\* ------------------------------------------------------------------ screen
\* onExit() or onFinish() is called: the caller (EventRunScreen) leaves the
\* 'presenting' state, so the screen unmounts and the timer's cleanup runs.
CallerTearsDown ==
  /\ mounted' = FALSE
  /\ rafCurrent' = IF mounted THEN CancelFrame(rafCurrent, rafOrphans).cur ELSE rafCurrent
  /\ rafOrphans' = rafOrphans

NoTeardown == UNCHANGED <<mounted, rafCurrent, rafOrphans>>

\* Variant: the probes are not made.
Supported_Always == TRUE

\* pickMimeType and the other probes of startRecording: a session can be made.
Supported == capability # "none"

\* Math.round(num / den) for positive integers: the nearest integer, a half
\* rounding up.  The quotient is a floating-point one (in the code the
\* dividend or the divisor is itself the rounded quotient width / height),
\* so at an exact half it may fall on either side: both neighbours are
\* outcomes there.
RoundDiv(num, den) ==
  LET up == (2 * num + den) \div (2 * den)
  IN IF (2 * num + den) % (2 * den) = 0 THEN {up - 1, up} ELSE {up}

\* Variant: the height is not capped.
RecSize_NoHeightCap(w, h) ==
  IF w > MAX_W
  THEN {[width |-> MAX_W, height |-> r] : r \in RoundDiv(MAX_W * h, w)}
  ELSE {[width |-> w, height |-> h]}

\* The size (recW, recH) startRecording gives the canvas for a first slide
\* of w by h: the width is capped first, then the height.
RecSize(w, h) ==
  LET capW == IF w > MAX_W
              THEN {[width |-> MAX_W, height |-> r] : r \in RoundDiv(MAX_W * h, w)}
              ELSE {[width |-> w, height |-> h]}
  IN UNION {IF c.height > MAX_H
            THEN {[width |-> r, height |-> MAX_H] : r \in RoundDiv(MAX_H * w, h)}
            ELSE {c} : c \in capW}

\* Variant: cleanup() leaves the audio tracks running.
cleanup_KeepsAudio ==
  [recorder |-> "null", isRecording |-> FALSE, surface |-> FALSE,
   audioHeld |-> audioHeld, lastImage |-> FALSE]

\* cleanup(): every track is stopped and every reference released.
cleanup ==
  [recorder |-> "null", isRecording |-> FALSE, surface |-> FALSE,
   audioHeld |-> FALSE, lastImage |-> FALSE]

\* Variant: setPaused toggles the device whatever is asked.
SetPaused_Toggle(rec, paused) ==
  IF rec = "recording" THEN "paused"
  ELSE IF rec = "paused" THEN "recording"
  ELSE rec

\* setPaused(paused) on the recorder held in recorderRef.
SetPaused(rec, paused) ==
  IF rec = "null" \/ rec = "inactive" THEN rec
  ELSE IF paused /\ rec = "recording" THEN "paused"
  ELSE IF ~paused /\ rec = "paused" THEN "recording"
  ELSE rec

\* The countdown makeOverlay and the overlay effect derive from slideElapsed:
\* Math.ceil((SLIDE_DURATION_MS - slideElapsed) / 1000).
SecondsLeft(slideElapsed) == (SLIDE_DURATION_MS - slideElapsed + 999) \div 1000

\* The stamp of a drawSlide call made without an overlay.
NoOverlay == 0 - 1

\* Variant: the progress of the active segment is not clamped.
SegmentFill_NoClamp(i, o) ==
  IF i < o.currentSlide THEN 15
  ELSE IF i = o.currentSlide THEN 15 - o.slideSecondsLeft
  ELSE 0

\* The red fill drawOverlayOnCanvas draws over segment i, in fifteenths of
\* segWidth: all of it for a completed slide,
\* Math.max(0, Math.min(1 - slideSecondsLeft / 15, 1)) of it for the active
\* one, none otherwise.
SegmentFill(i, o) ==
  IF i < o.currentSlide THEN 15
  ELSE IF i = o.currentSlide THEN Max(0, Min(15 - o.slideSecondsLeft, 15))
  ELSE 0

\* The loop of drawOverlayOnCanvas over the segments.
DrawnSegments(o) == [i \in 0 .. (o.totalSlides - 1) |-> SegmentFill(i, o)]

\* Variant: the countdown is taken from the total elapsed time.
MakeOverlay_FromTotal(ts) ==
  [currentSlide |-> ts.currentSlide, totalSlides |-> TOTAL_SLIDES,
   slideSecondsLeft |-> SecondsLeft(ts.totalElapsed)]

\* makeOverlay(): the overlay of the published timer state.
MakeOverlay(ts) ==
  [currentSlide |-> ts.currentSlide, totalSlides |-> TOTAL_SLIDES,
   slideSecondsLeft |-> SecondsLeft(ts.slideElapsed)]

\* The surface carries the overlay made from the timer state of the given
\* stamp, drawn by drawOverlayOnCanvas; none when nothing was drawn with an
\* overlay.
Painted(stamp) ==
  /\ overlay' = IF stamp = NoOverlay THEN NoOverlayInfo
                ELSE MakeOverlay(TickState(stamp, FALSE))
  /\ segments' = DrawnSegments(overlay')

\* drawSlide: a new image starts loading; its onload will draw it with the
\* overlay of the given stamp.  A load equal to the newest pending one draws
\* the same frame and is kept once.
Enqueue(loads, stamp) ==
  IF loads # <<>> /\ loads[Len(loads)] = [stamp |-> stamp, stale |-> FALSE]
  THEN loads
  ELSE Append(loads, [stamp |-> stamp, stale |-> FALSE])

\* updateOverlay has drawn the overlay of the given stamp: the loads pending
\* for another timer state now carry an older overlay than the surface.
MarkStale(loads, stamp) ==
  [i \in DOMAIN loads |->
     IF loads[i].stamp # stamp /\ loads[i].stamp # NoOverlay
     THEN [loads[i] EXCEPT !.stale = TRUE] ELSE loads[i]]

\* drawSlide(slide, overlay) with the overlay of the given stamp: nothing
\* without a surface; else the image is loaded and, once loaded, drawn with
\* that overlay, cached and pushed (at once when images load at once).
DrawSlide(surf, img, loads, stamp) ==
  IF ~surf THEN [img |-> img, loads |-> loads, pushed |-> FALSE]
  ELSE IF loadLag THEN [img |-> img, loads |-> Enqueue(loads, stamp), pushed |-> FALSE]
  ELSE [img |-> TRUE, loads |-> loads, pushed |-> TRUE]

\* Variant: updateOverlay does not look for a cached image.
UpdateOverlay_NoImageCheck(surf, img) == surf

\* updateOverlay(overlay) redraws and pushes a frame: only with a surface and
\* a cached image.
UpdateOverlay(surf, img) == surf /\ img

\* The effects of the render that follows a handler (draw effect, overlay
\* effect, pause effect), given what the handler left: the view is mounted
\* (m), the published timer state ts, recorderStartedRef, the recorder, the
\* isRecording state, the surface, the cached image and the pending loads.
Commit(m, ts, started, rec, recording, surf, img, loads) ==
  LET active == m /\ started /\ recording
      secs == SecondsLeft(ts.slideElapsed)
      d == IF active THEN DrawSlide(surf, img, loads, ts.totalElapsed)
           ELSE [img |-> img, loads |-> loads, pushed |-> FALSE]
      loads1 == d.loads
      img1 == d.img
      overlayCall == active /\ secs # prevSeconds
      overlayDraw == overlayCall /\ UpdateOverlay(surf, img1)
  IN /\ pendingLoads' = IF overlayDraw THEN MarkStale(loads1, ts.totalElapsed) ELSE loads1
     /\ prevSeconds' = IF overlayCall THEN secs
                       ELSE IF active THEN prevSeconds ELSE NoOverlay
     /\ drawnStamp' = IF ~surf THEN NoOverlay
                      ELSE IF overlayDraw \/ d.pushed
                      THEN ts.totalElapsed ELSE drawnStamp
     /\ Painted(drawnStamp')
     /\ redundantDraw' = (active /\ drawnSlideIdx = ts.currentSlide)
     /\ drawnSlideIdx' = IF active THEN ts.currentSlide ELSE NoOverlay
     /\ recorder' = IF m /\ started THEN SetPaused(rec, ts.isPaused) ELSE rec
     /\ surface' = surf
     /\ lastImage' = img1
     /\ UNCHANGED regressed

\* recorder.stopRecording(), up to its first asynchronous point; cleaned
\* tells that cleanup() ran.
StopRecording(rec, recording) ==
  IF rec = "null" \/ rec = "inactive"
  THEN [recorder |-> "null", isRecording |-> FALSE, resolved |-> TRUE, cleaned |-> TRUE]
  ELSE [recorder |-> "inactive", isRecording |-> recording, resolved |-> FALSE,
        cleaned |-> FALSE]

\* Variant: the started flag is not cleared.
FinalizeRecording_NoClear(started, rec, recording) ==
  IF ~started
  THEN [recorderStarted |-> started, called |-> FALSE, recorder |-> rec,
        isRecording |-> recording, resolved |-> TRUE, cleaned |-> FALSE]
  ELSE LET s == StopRecording(rec, recording)
       IN [recorderStarted |-> started, called |-> TRUE, recorder |-> s.recorder,
           isRecording |-> s.isRecording, resolved |-> s.resolved,
           cleaned |-> s.cleaned]

\* finalizeRecording(), up to its await.
FinalizeRecording(started, rec, recording) ==
  IF ~started
  THEN [recorderStarted |-> started, called |-> FALSE, recorder |-> rec,
        isRecording |-> recording, resolved |-> TRUE, cleaned |-> FALSE]
  ELSE LET s == StopRecording(rec, recording)
       IN [recorderStarted |-> FALSE, called |-> TRUE, recorder |-> s.recorder,
           isRecording |-> s.isRecording, resolved |-> s.resolved,
           cleaned |-> s.cleaned]

\* What a finalizeRecording() outcome f leaves in the capture hook, up to the
\* await: the flag, the call made, and cleanup() and resolve(null) when no
\* recorder was active.
Finalized(f) ==
  /\ recorderStarted' = f.recorderStarted
  /\ stopCalls' = IF f.called THEN stopCalls + 1 ELSE stopCalls
  /\ isRecording' = f.isRecording
  /\ audioHeld' = (audioHeld /\ ~f.cleaned)
  /\ lastResult' = IF f.called /\ f.resolved
                   THEN [kind |-> "none", data |-> <<>>] ELSE lastResult
  /\ fixed' = IF f.called /\ f.resolved THEN "no" ELSE fixed

\* What follows `await finalizeRecording()` in the Escape handler and handleExit.
ExitNow ==
  IF props.manageFullscreen
  THEN /\ fsExits' = fsExits + 1
       /\ fsThen' = fsThen + 1
       /\ exitCalls' = exitCalls
       /\ NoTeardown
  ELSE /\ exitCalls' = exitCalls + 1
       /\ UNCHANGED <<fsExits, fsThen>>
       /\ CallerTearsDown

\* The body of the Escape handler and of handleExit.
ExitGesture ==
  /\ triggers < MaxTriggers
  /\ triggers' = triggers + 1
  /\ cancelled' = (cancelled \/ ~waiting)
  /\ LET f == FinalizeRecording(recorderStarted, recorder, isRecording)
     IN /\ Finalized(f)
        /\ IF f.resolved
           THEN ExitNow /\ UNCHANGED <<stopPhase, awaiter>>
           ELSE /\ stopPhase' = "awaitStopEvent"
                /\ awaiter' = "exit"
                /\ UNCHANGED <<fsExits, fsThen, exitCalls>>
                /\ NoTeardown
        /\ Commit(mounted', timerState, f.recorderStarted, f.recorder, f.isRecording,
                  surface /\ ~f.cleaned, lastImage /\ ~f.cleaned, pendingLoads)
  /\ UNCHANGED <<props, waiting, micPending, holdDue, finishNotes, delivered,
                 tickedAfterCancel, capability, loadLag, micAnswer, fixAnswer, firstSlide, micDenied, startCalls, canvasSize, micRequested,
                 sessionErrored, chunks, blob, dataEvents, arrivals>>
  /\ UNCHANGED <<now, autoStart, startTime, pausedAt, totalPausedMs, manualOffset,
                 hasFinished, timerState, histVars>>

\* Escape is pressed.
KeyEscape ==
  /\ mounted
  /\ ExitGesture

\* Stop is clicked in the controls overlay (rendered while presenting).
ClickStop ==
  /\ mounted
  /\ ~waiting
  /\ ~timerState.isFinished
  /\ ExitGesture

\* Space is pressed: togglePause(), then the render.
KeySpace ==
  /\ mounted
  /\ togglePause
  /\ isRecording' = isRecording
  /\ Commit(TRUE, timerState', recorderStarted, recorder, isRecording, surface,
            lastImage, pendingLoads)
  /\ UNCHANGED <<props, waiting, recorderStarted, micPending, stopPhase, awaiter,
                 holdDue, fsThen, stopCalls, exitCalls, finishNotes, fsExits,
                 delivered, triggers, cancelled, tickedAfterCancel, capability, loadLag, micAnswer, fixAnswer, firstSlide,
                 audioHeld, micDenied, startCalls, canvasSize, micRequested, sessionErrored,
                 dataVars>>

\* A finalizeRecording() outcome that changes nothing (it was not called).
NotFinalized ==
  [recorderStarted |-> recorderStarted, called |-> FALSE, recorder |-> recorder,
   isRecording |-> isRecording, resolved |-> TRUE, cleaned |-> FALSE]

\* Variant: the notification is not held back.
handleFinish_NoHold(f) ==
  IF f.resolved
  THEN holdDue' = holdDue \cup {now} /\ UNCHANGED <<stopPhase, awaiter>>
  ELSE /\ stopPhase' = "awaitStopEvent"
       /\ awaiter' = "finish"
       /\ UNCHANGED holdDue

\* handleFinish, up to the await in finish(); f is its finalizeRecording().
handleFinish(f) ==
  IF f.resolved
  THEN holdDue' = holdDue \cup {now + HOLD_MS} /\ UNCHANGED <<stopPhase, awaiter>>
  ELSE /\ stopPhase' = "awaitStopEvent"
       /\ awaiter' = "finish"
       /\ UNCHANGED holdDue

\* A pending frame callback runs tick; the timer's onFinish is handleFinish;
\* the render of the published state follows.
ScreenTick ==
  /\ rafCurrent \/ rafOrphans > 0
  /\ \E which \in {"current", "orphan"} :
       /\ which = "current" => rafCurrent
       /\ which = "orphan" => rafOrphans > 0
       /\ TickBody(GetEffectiveElapsed, pausedAt, hasFinished,
                   IF which = "current"
                   THEN [cur |-> FALSE, orphans |-> rafOrphans]
                   ELSE [cur |-> rafCurrent, orphans |-> rafOrphans - 1],
                   finishCalls, finishTicks)
       /\ staleFrame' = (staleFrame /\ which = "orphan")
  /\ tickedAfterCancel' = (tickedAfterCancel \/ cancelled)
  /\ LET fires == finishCalls' > finishCalls
         f == IF fires THEN FinalizeRecording(recorderStarted, recorder, isRecording)
              ELSE NotFinalized
     IN /\ Finalized(f)
        /\ IF fires THEN handleFinish(f) ELSE UNCHANGED <<stopPhase, awaiter, holdDue>>
        /\ Commit(mounted, timerState', f.recorderStarted, f.recorder, f.isRecording,
                  surface /\ ~f.cleaned, lastImage /\ ~f.cleaned, pendingLoads)
  /\ UNCHANGED <<props, waiting, micPending, fsThen, exitCalls, finishNotes, fsExits,
                 delivered, triggers, cancelled, capability, loadLag, micAnswer, fixAnswer, firstSlide, micDenied, startCalls, canvasSize,
                 micRequested, sessionErrored, chunks, blob, dataEvents, arrivals>>
  /\ UNCHANGED <<now, mounted, autoStart, startTime, idealElapsed, pausedAt, totalPausedMs,
                 manualOffset, seeks, pauses, restarts>>

\* recorder.ondataavailable: a data event of non-zero size is pushed.
KeepChunk(cs, id, nonEmpty) == IF nonEmpty THEN Append(cs, id) ELSE cs

\* Variant: the result is built even from no data.
StopResult_AllowsEmpty(b) == [kind |-> "blob", data |-> b]

\* What the onstop handler resolves with: blob.size > 0 ? blob : null.
StopResult(b) ==
  IF b # <<>> THEN [kind |-> "blob", data |-> b] ELSE [kind |-> "none", data |-> <<>>]

\* onstop: the duration pass is made for a WebM blob of non-zero size.
NeedsFix(cap, b) == cap = "webm" /\ b # <<>>

\* Variant: a failed duration pass discards the blob.
FixOutcome_DiscardOnFail(b, answer) ==
  IF answer = "ok" THEN [data |-> b, pass |-> "done"]
  ELSE [data |-> <<>>, pass |-> "failed"]

\* The blob onstop goes on with after `await fixWebmDuration(...)`: the
\* corrected blob (the same media data), or on rejection the blob as it was.
FixOutcome(b, answer) ==
  [data |-> b, pass |-> IF answer = "ok" THEN "done" ELSE "failed"]

\* The pending stopRecording resolves with the blob b (cleanup();
\* resolve(...)), and what awaits it continues.
ResolveStop(b, pass) ==
  /\ stopPhase' = "idle"
  /\ fixed' = pass
  /\ isRecording' = cleanup.isRecording
  /\ audioHeld' = cleanup.audioHeld
  /\ lastResult' = StopResult(b)
  /\ delivered' = IF lastResult'.kind = "blob" THEN delivered + 1 ELSE delivered
  /\ awaiter' = "none"
  /\ CASE awaiter = "exit" -> ExitNow /\ UNCHANGED holdDue
       [] awaiter = "finish" ->
            /\ holdDue' = holdDue \cup {now + HOLD_MS}
            /\ UNCHANGED <<fsExits, fsThen, exitCalls>>
            /\ NoTeardown
       [] OTHER -> UNCHANGED <<holdDue, fsExits, fsThen, exitCalls>> /\ NoTeardown
  /\ Commit(mounted', timerState, recorderStarted, cleanup.recorder,
            cleanup.isRecording, cleanup.surface, cleanup.lastImage, pendingLoads)

\* The recorder's last data event and its stop event: recorder.onstop.
RecOnStop ==
  /\ stopPhase = "awaitStopEvent"
  /\ \E lastNonEmpty \in BOOLEAN :
       LET kept == KeepChunk(chunks, dataEvents + 1, lastNonEmpty)
       IN /\ arrivals' = IF lastNonEmpty THEN Append(arrivals, dataEvents + 1)
                         ELSE arrivals
          /\ chunks' = <<>>
          /\ IF NeedsFix(capability, kept)
             THEN /\ stopPhase' = "awaitFix"
                  /\ blob' = kept
                  /\ UNCHANGED <<recorder, isRecording, audioHeld, surface, lastImage,
                                 lastResult, fixed, delivered, awaiter, holdDue, fsExits,
                                 fsThen, exitCalls, drawVars>>
                  /\ NoTeardown
             ELSE ResolveStop(kept, "no") /\ blob' = <<>>
  /\ UNCHANGED <<props, waiting, recorderStarted, micPending, stopCalls, finishNotes,
                 triggers, cancelled, tickedAfterCancel, capability, loadLag, micAnswer, fixAnswer, firstSlide, micDenied,
                 startCalls, canvasSize, micRequested, sessionErrored, dataEvents>>
  /\ UNCHANGED <<now, autoStart, startTime, pausedAt, totalPausedMs, manualOffset,
                 hasFinished, timerState, histVars>>

\* fixWebmDuration settles, fulfilled or rejected.
RecFixDone ==
  /\ stopPhase = "awaitFix"
  /\ LET o == FixOutcome(blob, fixAnswer)
     IN ResolveStop(o.data, o.pass)
  /\ blob' = <<>>
  /\ UNCHANGED <<props, waiting, recorderStarted, micPending, stopCalls, finishNotes,
                 triggers, cancelled, tickedAfterCancel, capability, loadLag, micAnswer, fixAnswer, firstSlide, micDenied,
                 startCalls, canvasSize, micRequested, sessionErrored, chunks, dataEvents,
                 arrivals>>
  /\ UNCHANGED <<now, autoStart, startTime, pausedAt, totalPausedMs, manualOffset,
                 hasFinished, timerState, histVars>>

\* A timeslice data event of the running recorder: recorder.ondataavailable.
RecData ==
  /\ recorder = "recording"
  /\ dataEvents < MaxData
  /\ dataEvents' = dataEvents + 1
  /\ \E nonEmpty \in BOOLEAN :
       /\ chunks' = KeepChunk(chunks, dataEvents + 1, nonEmpty)
       /\ arrivals' = IF nonEmpty THEN Append(arrivals, dataEvents + 1) ELSE arrivals
  /\ UNCHANGED <<props, waiting, recorderStarted, recorder, micPending, isRecording,
                 stopPhase, awaiter, holdDue, fsThen, stopCalls, exitCalls,
                 finishNotes, fsExits, delivered, triggers, cancelled,
                 tickedAfterCancel, capability, loadLag, micAnswer, fixAnswer, firstSlide, surface, audioHeld, lastImage,
                 micDenied, startCalls, canvasSize, micRequested, sessionErrored, drawVars,
                 blob, lastResult, fixed>>
  /\ UNCHANGED <<timerVars, histVars>>

\* Variant: a denied microphone request ends startRecording.
MicOutcome_DenialAborts(answer) ==
  [micDenied |-> answer = "deny", audioHeld |-> answer = "grant",
   starts |-> answer = "grant"]

\* What startRecording does with the answer to its microphone request: the
\* flag, the audio stream it keeps, and whether it goes on to start the
\* recorder.
MicOutcome(answer) ==
  [micDenied |-> answer = "deny", audioHeld |-> answer = "grant", starts |-> TRUE]

\* getUserMedia settles, granted or denied: startRecording goes on, creates and
\* starts the recorder and draws the first slide.
MicResolve ==
  /\ micPending
  /\ micPending' = FALSE
  /\ LET o == MicOutcome(micAnswer)
     IN /\ micDenied' = o.micDenied
        /\ audioHeld' = o.audioHeld
        /\ chunks' = IF o.starts THEN <<>> ELSE chunks
        /\ arrivals' = IF o.starts THEN <<>> ELSE arrivals
        /\ isRecording' = (isRecording \/ o.starts)
        /\ Commit(mounted, timerState, recorderStarted,
                  IF o.starts THEN "recording" ELSE recorder, isRecording', surface,
                  lastImage \/ (o.starts /\ surface /\ ~loadLag),
                  IF o.starts /\ surface /\ loadLag
                  THEN Enqueue(pendingLoads, NoOverlay) ELSE pendingLoads)
  /\ UNCHANGED <<props, waiting, recorderStarted, stopPhase, awaiter, holdDue, fsThen,
                 stopCalls, exitCalls, finishNotes, fsExits, delivered, triggers,
                 cancelled, tickedAfterCancel, capability, loadLag, micAnswer, fixAnswer, firstSlide, startCalls, canvasSize, micRequested,
                 sessionErrored, blob, dataEvents, lastResult, fixed>>
  /\ UNCHANGED <<timerVars, histVars>>

\* recorder.onerror: cleanup().
RecError ==
  /\ recorder = "recording" \/ recorder = "paused"
  /\ isRecording' = cleanup.isRecording
  /\ audioHeld' = cleanup.audioHeld
  /\ sessionErrored' = TRUE
  /\ Commit(mounted, timerState, recorderStarted, cleanup.recorder,
            cleanup.isRecording, cleanup.surface, cleanup.lastImage, pendingLoads)
  /\ UNCHANGED <<props, waiting, recorderStarted, micPending, stopPhase, awaiter,
                 holdDue, fsThen, stopCalls, exitCalls, finishNotes, fsExits,
                 delivered, triggers, cancelled, tickedAfterCancel, capability, loadLag, micAnswer, fixAnswer, firstSlide,
                 micDenied, startCalls, canvasSize, micRequested, dataVars>>
  /\ UNCHANGED <<timerVars, histVars>>

\* Variant: capture is started whether or not recording is enabled.
ShouldStart_Always(enabled, started) == ~started

\* handleStart starts capture: recordingEnabled && !recorderStartedRef.current.
ShouldStart(enabled, started) == enabled /\ ~started

\* handleStart (and handleStartFullscreen): setWaiting(false), resume(),
\* startRecording up to its first await; the re-render changes autoStart, so
\* the timer's effect re-runs.
HandleStart ==
  /\ mounted
  /\ waiting
  /\ waiting' = FALSE
  /\ LET r == ResumeResult(pausedAt, totalPausedMs, rafCurrent, rafOrphans, timerState)
     IN StartEffect(TRUE, CancelFrame(r.cur, r.orphans), r.timerState)
  /\ LET start == ShouldStart(props.recordingEnabled, recorderStarted)
         made == start /\ Supported
         sync == made /\ props.audioGiven
     IN /\ recorderStarted' = (recorderStarted \/ start)
        /\ startCalls' = IF start THEN startCalls + 1 ELSE startCalls
        /\ canvasSize' \in IF made THEN RecSize(firstSlide.width, firstSlide.height)
                          ELSE {canvasSize}
        /\ micPending' = (micPending \/ (made /\ ~props.audioGiven))
        /\ micRequested' = (micRequested \/ (made /\ ~props.audioGiven))
        /\ micDenied' = IF sync THEN FALSE ELSE micDenied
        /\ audioHeld' = (audioHeld \/ sync)
        /\ isRecording' = (isRecording \/ sync)
        /\ chunks' = IF sync THEN <<>> ELSE chunks
        /\ arrivals' = IF sync THEN <<>> ELSE arrivals
        /\ Commit(TRUE, timerState', recorderStarted',
                  IF sync THEN "recording" ELSE recorder, isRecording',
                  surface \/ made, lastImage \/ (sync /\ ~loadLag),
                  IF sync /\ loadLag THEN Enqueue(pendingLoads, NoOverlay)
                  ELSE pendingLoads)
  /\ UNCHANGED <<props, stopPhase, awaiter, holdDue, fsThen, stopCalls, exitCalls,
                 finishNotes, fsExits, delivered, triggers, cancelled,
                 tickedAfterCancel, capability, loadLag, micAnswer, fixAnswer, firstSlide, sessionErrored, blob, dataEvents,
                 lastResult, fixed>>
  /\ UNCHANGED <<now, mounted, seeks, pauses, restarts>>

\* An image of drawSlide has loaded: img.onload draws it with its overlay on
\* the canvas the call was given and caches it.
LoadDone ==
  /\ pendingLoads # <<>>
  /\ LET h == Head(pendingLoads)
     IN /\ pendingLoads' = Tail(pendingLoads)
        /\ lastImage' = TRUE
        /\ drawnStamp' = IF surface THEN h.stamp ELSE drawnStamp
        /\ Painted(drawnStamp')
        /\ regressed' = (regressed \/ (surface /\ h.stale))
  /\ UNCHANGED <<props, waiting, recorderStarted, recorder, micPending, isRecording,
                 stopPhase, awaiter, holdDue, fsThen, stopCalls, exitCalls,
                 finishNotes, fsExits, delivered, triggers, cancelled,
                 tickedAfterCancel, capability, loadLag, micAnswer, fixAnswer, firstSlide, surface, audioHeld, micDenied,
                 startCalls, canvasSize, micRequested, sessionErrored, prevSeconds,
                 redundantDraw, drawnSlideIdx, dataVars>>
  /\ UNCHANGED <<timerVars, histVars>>

\* The display-hold timeout of handleFinish fires.
HoldFire ==
  /\ \E d \in holdDue : now >= d /\ holdDue' = holdDue \ {d}
  /\ IF props.onFinishGiven
     THEN /\ finishNotes' = finishNotes + 1
          /\ UNCHANGED <<fsExits, fsThen>>
          /\ CallerTearsDown
     ELSE /\ fsExits' = fsExits + 1
          /\ fsThen' = fsThen + 1
          /\ UNCHANGED finishNotes
          /\ NoTeardown
  /\ UNCHANGED <<props, waiting, recorderStarted, recorder, micPending, isRecording,
                 stopPhase, awaiter, stopCalls, exitCalls, delivered, triggers,
                 cancelled, tickedAfterCancel, captureVars>>
  /\ UNCHANGED <<now, autoStart, startTime, pausedAt, totalPausedMs, manualOffset,
                 hasFinished, timerState, histVars>>

\* exitFullscreen() settles: .then(onExit).
FsThenExit ==
  /\ fsThen > 0
  /\ fsThen' = fsThen - 1
  /\ exitCalls' = exitCalls + 1
  /\ CallerTearsDown
  /\ UNCHANGED <<props, waiting, recorderStarted, recorder, micPending, isRecording,
                 stopPhase, awaiter, holdDue, stopCalls, finishNotes, fsExits,
                 delivered, triggers, cancelled, tickedAfterCancel, captureVars>>
  /\ UNCHANGED <<now, autoStart, startTime, pausedAt, totalPausedMs, manualOffset,
                 hasFinished, timerState, histVars>>

\* Wall-clock time passes, by a step or up to a pending timeout.
ScreenAdvance ==
  /\ \E t \in {now + d : d \in Deltas} \cup holdDue :
       t > now /\ t <= MaxNow /\ now' = t
  /\ UNCHANGED <<mounted, autoStart, startTime, pausedAt, totalPausedMs,
                 manualOffset, hasFinished, rafCurrent, rafOrphans, timerState,
                 finishCalls, finishTicks, lastSeek, seeks, pauses, restarts,
                 staleFrame, firedSinceReset, screenVars>>
  /\ idealElapsed' = IF pausedAt = NULL THEN idealElapsed + (now' - now)
                     ELSE idealElapsed

InitScreen ==
  /\ TimerInit
  /\ autoStart = FALSE
  /\ ScreenInit
  /\ props \in [recordingEnabled : BOOLEAN, manageFullscreen : BOOLEAN,
                onFinishGiven : BOOLEAN, audioGiven : BOOLEAN]
  /\ capability \in {"none", "mp4", "webm"}
  /\ loadLag = FALSE
  /\ micAnswer = "grant"
  /\ fixAnswer = "ok"
  /\ firstSlide = DefaultSlide
  \* an input that is never read is fixed
  /\ capability = (IF props.recordingEnabled THEN "webm" ELSE "none")
  /\ ~props.recordingEnabled => ~props.audioGiven

NextScreen ==
  \/ ScreenAdvance
  \/ ScreenTick
  \/ KeySpace
  \/ HandleStart
  \/ KeyEscape
  \/ ClickStop
  \/ RecOnStop
  \/ RecFixDone
  \/ MicResolve
  \/ RecError
  \/ HoldFire
  \/ FsThenExit

SpecScreen == InitScreen /\ [][NextScreen]_vars

\* The draw path of a recorded presentation whose slide images take time to
\* load: audio is given, so the recorder starts with the start gesture.
InitDraw ==
  /\ TimerInit
  /\ autoStart = FALSE
  /\ ScreenInit
  /\ props = [recordingEnabled |-> TRUE, manageFullscreen |-> FALSE,
              onFinishGiven |-> TRUE, audioGiven |-> TRUE]
  /\ capability = "mp4"
  /\ loadLag = TRUE
  /\ micAnswer = "grant"
  /\ fixAnswer = "ok"
  /\ firstSlide = DefaultSlide

NextDraw ==
  \/ ScreenAdvance
  \/ ScreenTick
  \/ KeySpace
  \/ HandleStart
  \/ KeyEscape
  \/ RecOnStop
  \/ RecError
  \/ LoadDone
  \/ HoldFire

SpecDraw == InitDraw /\ [][NextDraw]_vars

\* The capture session of a recorded presentation, over what the runtime
\* supports, whether audio is given and what a microphone request gets.
InitCapture ==
  /\ TimerInit
  /\ autoStart = FALSE
  /\ ScreenInit
  /\ props \in [recordingEnabled : {TRUE}, manageFullscreen : {FALSE},
                onFinishGiven : {TRUE}, audioGiven : BOOLEAN]
  /\ capability \in {"none", "mp4", "webm"}
  /\ micAnswer \in {"grant", "deny"}
  /\ loadLag = FALSE
  \* an input that is never read is fixed
  /\ capability = "none" => ~props.audioGiven
  /\ (capability = "none" \/ props.audioGiven) => micAnswer = "grant"
  /\ fixAnswer = "ok"
  /\ firstSlide = DefaultSlide

NextCapture ==
  \/ ScreenAdvance
  \/ ScreenTick
  \/ KeySpace
  \/ HandleStart
  \/ KeyEscape
  \/ RecOnStop
  \/ RecFixDone
  \/ MicResolve
  \/ RecError
  \/ HoldFire

SpecCapture == InitCapture /\ [][NextCapture]_vars

\* The data path of a recorded presentation: timeslice data events, the
\* stop and what it resolves to, over what the runtime supports.
InitData ==
  /\ TimerInit
  /\ autoStart = FALSE
  /\ ScreenInit
  /\ props = [recordingEnabled |-> TRUE, manageFullscreen |-> FALSE,
              onFinishGiven |-> TRUE, audioGiven |-> TRUE]
  /\ capability \in {"none", "mp4", "webm"}
  /\ loadLag = FALSE
  /\ micAnswer = "grant"
  /\ fixAnswer \in {"ok", "fail"}
  \* an input that is never read is fixed
  /\ capability # "webm" => fixAnswer = "ok"
  /\ firstSlide = DefaultSlide

NextData ==
  \/ ScreenAdvance
  \/ ScreenTick
  \/ HandleStart
  \/ KeyEscape
  \/ RecData
  \/ RecOnStop
  \/ RecFixDone
  \/ RecError
  \/ HoldFire

SpecData == InitData /\ [][NextData]_vars

\* A recorded presentation that is left to run: no Escape, no Stop, no device
\* error, and a device that delivers data.  The clock may pass any instant, so
\* besides its usual steps it reaches the instant the running timer gets to
\* the total duration, and the instant a pending hold is due.
TimeToFinish ==
  IF pausedAt # NULL THEN 0 ELSE Max(0, TOTAL_DURATION_MS - GetEffectiveElapsed)

LiveAdvance ==
  /\ \E t \in {now + d : d \in {x \in Deltas : now + x <= MaxNow}} \cup holdDue
              \cup {now + TimeToFinish} :
       /\ t > now
       /\ now' = t
  /\ UNCHANGED <<mounted, autoStart, startTime, pausedAt, totalPausedMs,
                 manualOffset, hasFinished, rafCurrent, rafOrphans, timerState,
                 finishCalls, finishTicks, lastSeek, seeks, pauses, restarts,
                 staleFrame, firedSinceReset, screenVars>>
  /\ idealElapsed' = IF pausedAt = NULL THEN idealElapsed + (now' - now)
                     ELSE idealElapsed

\* The recorder's stop event of a session that has recorded something.
LiveRecOnStop == RecOnStop /\ arrivals' # <<>>

\* Space resumes a timer that was paused (after the start gesture, or by a
\* pause() made before it).
LiveResume == KeySpace /\ pausedAt # NULL /\ (~waiting \/ pauses > 0)

InitLive ==
  /\ TimerInit
  /\ autoStart = FALSE
  /\ ScreenInit
  /\ props \in [recordingEnabled : {TRUE}, manageFullscreen : {FALSE},
                onFinishGiven : {TRUE}, audioGiven : BOOLEAN]
  /\ capability = "webm"
  /\ loadLag = FALSE
  /\ micAnswer = "grant"
  /\ fixAnswer = "ok"
  /\ firstSlide = DefaultSlide

NextLive ==
  \/ LiveAdvance
  \/ ScreenTick
  \/ KeySpace
  \/ HandleStart
  \/ MicResolve
  \/ LiveRecOnStop
  \/ RecFixDone
  \/ HoldFire

\* Frames run, time passes, promises settle and timeouts fire; a paused
\* presentation is resumed.
SpecLive ==
  /\ InitLive
  /\ [][NextLive]_vars
  /\ WF_vars(LiveAdvance)
  /\ WF_vars(ScreenTick)
  /\ WF_vars(LiveResume)
  /\ WF_vars(MicResolve)
  /\ WF_vars(LiveRecOnStop)
  /\ WF_vars(RecFixDone)
  /\ WF_vars(HoldFire)

\* Wall-clock time passes on the timer alone, by a step or up to the instant
\* the running timer gets to the total duration, however late that is.
ReopenAdvance ==
  /\ UNCHANGED screenVars
  /\ \E t \in {now + d : d \in {x \in Deltas : now + x <= MaxNow}}
              \cup {now + TimeToFinish} :
       /\ t > now
       /\ now' = t
  /\ lastSeek' = IF lastSeek # NULL /\ pausedAt = NULL
                 THEN <<lastSeek[1], lastSeek[2] + (now' - now)>> ELSE lastSeek
  /\ idealElapsed' = IF pausedAt = NULL THEN idealElapsed + (now' - now)
                     ELSE idealElapsed
  /\ UNCHANGED <<mounted, autoStart, startTime, pausedAt, totalPausedMs,
                 manualOffset, hasFinished, rafCurrent, rafOrphans, timerState,
                 finishCalls, finishTicks, seeks, pauses, restarts,
                 staleFrame, firedSinceReset>>

\* The timer hook run past its finish: its client seeks and toggles the
\* pause, and the frames run whenever they run.
NextReopen ==
  \/ ReopenAdvance
  \/ Tick
  \/ TogglePause
  \/ GoToSlide
  \/ NextSlide
  \/ PrevSlide

SpecReopen == Init /\ [][NextReopen]_vars

\* A presentation on a runtime that can record, with recording enabled or
\* not, and audio given or not.
InitEnabled ==
  /\ TimerInit
  /\ autoStart = FALSE
  /\ ScreenInit
  /\ props \in [recordingEnabled : BOOLEAN, manageFullscreen : {FALSE},
                onFinishGiven : {TRUE}, audioGiven : BOOLEAN]
  /\ capability = "webm"
  /\ loadLag = FALSE
  /\ micAnswer = "grant"
  /\ fixAnswer = "ok"
  /\ firstSlide = DefaultSlide

NextEnabled ==
  \/ ScreenAdvance
  \/ ScreenTick
  \/ KeySpace
  \/ HandleStart
  \/ KeyEscape
  \/ ClickStop
  \/ RecOnStop
  \/ RecFixDone
  \/ MicResolve
  \/ HoldFire

SpecEnabled == InitEnabled /\ [][NextEnabled]_vars

\* A client of the capture hook calls drawSlide with an overlay.
CallDrawSlideWith(stamp) ==
  /\ mounted
  /\ LET d == DrawSlide(surface, lastImage, pendingLoads, stamp)
     IN /\ Len(d.loads) <= MaxLoads
        /\ pendingLoads' = d.loads
        /\ lastImage' = d.img
        /\ drawnStamp' = IF d.pushed THEN stamp ELSE drawnStamp
        /\ Painted(drawnStamp')
  /\ UNCHANGED <<props, waiting, recorderStarted, recorder, micPending, isRecording,
                 stopPhase, awaiter, holdDue, fsThen, stopCalls, exitCalls,
                 finishNotes, fsExits, delivered, triggers, cancelled,
                 tickedAfterCancel, capability, loadLag, micAnswer, fixAnswer, firstSlide,
                 surface, audioHeld, micDenied, startCalls, canvasSize, micRequested,
                 sessionErrored, prevSeconds, regressed, redundantDraw,
                 drawnSlideIdx, dataVars>>
  /\ UNCHANGED <<timerVars, histVars>>

CallDrawSlide == \E stamp \in {timerState.totalElapsed, HookStamp} : CallDrawSlideWith(stamp)

\* A client of the capture hook calls updateOverlay with an overlay.
CallUpdateOverlayWith(stamp) ==
  /\ mounted
  /\ IF UpdateOverlay(surface, lastImage)
     THEN /\ drawnStamp' = stamp
          /\ pendingLoads' = MarkStale(pendingLoads, stamp)
     ELSE UNCHANGED <<drawnStamp, pendingLoads>>
  /\ Painted(drawnStamp')
  /\ UNCHANGED <<props, waiting, recorderStarted, recorder, micPending, isRecording,
                 stopPhase, awaiter, holdDue, fsThen, stopCalls, exitCalls,
                 finishNotes, fsExits, delivered, triggers, cancelled,
                 tickedAfterCancel, capability, loadLag, micAnswer, fixAnswer, firstSlide,
                 surface, audioHeld, lastImage, micDenied, startCalls, canvasSize, micRequested,
                 sessionErrored, prevSeconds, regressed, redundantDraw,
                 drawnSlideIdx, dataVars>>
  /\ UNCHANGED <<timerVars, histVars>>

CallUpdateOverlay ==
  \E stamp \in {timerState.totalElapsed, HookStamp} : CallUpdateOverlayWith(stamp)

\* A client of the capture hook calls setPaused.
CallSetPausedWith(paused) ==
  /\ mounted
  /\ recorder' = SetPaused(recorder, paused)
  /\ UNCHANGED <<props, waiting, recorderStarted, micPending, isRecording,
                 stopPhase, awaiter, holdDue, fsThen, stopCalls, exitCalls,
                 finishNotes, fsExits, delivered, triggers, cancelled,
                 tickedAfterCancel, captureVars>>
  /\ UNCHANGED <<timerVars, histVars>>

CallSetPaused == \E paused \in BOOLEAN : CallSetPausedWith(paused)

\* The capture hook's functions, called by any client at any time: before a
\* session, during one, while it stops, and after a device error or the stop
\* has ended it.
InitHook ==
  /\ TimerInit
  /\ autoStart = FALSE
  /\ ScreenInit
  /\ props = [recordingEnabled |-> TRUE, manageFullscreen |-> FALSE,
              onFinishGiven |-> TRUE, audioGiven |-> TRUE]
  /\ capability = "mp4"
  /\ loadLag \in BOOLEAN
  /\ micAnswer = "grant"
  /\ fixAnswer = "ok"
  /\ firstSlide = DefaultSlide

NextHook ==
  \/ HandleStart
  \/ RecError
  \/ LoadDone
  \/ CallDrawSlide
  \/ CallUpdateOverlay
  \/ CallSetPaused
  \/ KeyEscape
  \/ RecOnStop

SpecHook == InitHook /\ [][NextHook]_vars

\* drawOverlayOnCanvas(ctx, w, h, overlay) is called with some overlay.
DrawOverlayOnCanvas ==
  /\ \E c \in OverlaySlides, secs \in OverlaySeconds :
       overlay' = [currentSlide |-> c, totalSlides |-> TOTAL_SLIDES,
                   slideSecondsLeft |-> secs]
  /\ segments' = DrawnSegments(overlay')
  /\ UNCHANGED <<props, waiting, recorderStarted, recorder, micPending, isRecording,
                 stopPhase, awaiter, holdDue, fsThen, stopCalls, exitCalls,
                 finishNotes, fsExits, delivered, triggers, cancelled,
                 tickedAfterCancel, capability, loadLag, micAnswer, fixAnswer,
                 firstSlide, surface, audioHeld, lastImage, micDenied, startCalls,
                 canvasSize, micRequested, sessionErrored, pendingLoads, drawnStamp,
                 prevSeconds, regressed, redundantDraw, drawnSlideIdx, dataVars>>
  /\ UNCHANGED <<timerVars, histVars>>

\* The overlay painter alone, over the overlays it can be given.
InitOverlay ==
  /\ TimerInit
  /\ autoStart = FALSE
  /\ ScreenInit
  /\ props = [recordingEnabled |-> TRUE, manageFullscreen |-> FALSE,
              onFinishGiven |-> TRUE, audioGiven |-> TRUE]
  /\ capability = "mp4"
  /\ loadLag = FALSE
  /\ micAnswer = "grant"
  /\ fixAnswer = "ok"
  /\ firstSlide = DefaultSlide

NextOverlay == DrawOverlayOnCanvas

SpecOverlay == InitOverlay /\ [][NextOverlay]_vars

\* The capture surface of a recorded presentation, over the sizes of the
\* first slide: the start, Escape and the recorder's stop.
InitSize ==
  /\ TimerInit
  /\ autoStart = FALSE
  /\ ScreenInit
  /\ props = [recordingEnabled |-> TRUE, manageFullscreen |-> FALSE,
              onFinishGiven |-> TRUE, audioGiven |-> TRUE]
  /\ capability = "mp4"
  /\ loadLag = FALSE
  /\ micAnswer = "grant"
  /\ fixAnswer = "ok"
  /\ firstSlide \in [width : SlideWidths, height : SlideHeights]

NextSize ==
  \/ HandleStart
  \/ KeyEscape
  \/ RecOnStop

SpecSize == InitSize /\ [][NextSize]_vars

\* ------------------------------------------------------------------ claims
\* The effective elapsed time after a step.
ElapsedNext ==
  ElapsedOf(now', pausedAt', startTime', totalPausedMs', manualOffset')

\* C1: in a session with no seek and no reset, onFinish is invoked at most
\* once, and exactly by the first tick that computes a clamped elapsed time
\* >= 300000 ms: it has been invoked once if such a tick has run, and not at
\* all otherwise (both histories restart at a start, seek or reset).
C1_FinishOnce == finishCalls = (IF finishTicks > 0 THEN 1 ELSE 0)

\* A second tick has computed the finished state of a session that was never
\* sought or reset.
C1_Witness ==
  finishTicks >= 2 /\ finishCalls = 1 /\ seeks = 0 /\ restarts = 0

\* The published fields the specification derives from an elapsed time e.
ExpectedFields(e) ==
  LET total == IF e < 0 THEN 0 ELSE IF e > TOTAL_DURATION_MS THEN TOTAL_DURATION_MS ELSE e
      slide == CHOOSE k \in 0 .. (TOTAL_SLIDES - 1) :
                 /\ k * SLIDE_DURATION_MS <= total
                 /\ total < (k + 1) * SLIDE_DURATION_MS \/ k = TOTAL_SLIDES - 1
  IN [currentSlide |-> slide,
      slideElapsed |-> total - slide * SLIDE_DURATION_MS,
      totalElapsed |-> total]

\* C4: the state a tick publishes (a frame tick, or the immediate tick of a
\* seek on a paused timer) has totalElapsed = clamp(e, 0, 300000),
\* currentSlide = min(floor(totalElapsed / 15000), 19) and
\* slideElapsed = totalElapsed - currentSlide * 15000, for the effective
\* elapsed time e at that tick.
C4_TickPublishes ==
  [][(Tick \/ (pausedAt # NULL /\ GoToSlide)) =>
       LET x == ExpectedFields(ElapsedNext)
       IN /\ timerState'.totalElapsed = x.totalElapsed
          /\ timerState'.currentSlide = x.currentSlide
          /\ timerState'.slideElapsed = x.slideElapsed]_vars

\* A tick has published a state inside a later slide.
C4_Witness ==
  /\ timerState.currentSlide > 0
  /\ timerState.slideElapsed > 0
  /\ timerState.totalElapsed < TOTAL_DURATION_MS

\* C5: in every published state, isFinished holds exactly when
\* totalElapsed >= 300000.
C5_FinishedIffTotal ==
  timerState.isFinished <=> (timerState.totalElapsed >= TOTAL_DURATION_MS)

\* A finished state, republished by pause().
C5_Witness == timerState.isFinished /\ timerState.isPaused

\* C6 as stated: currentSlide in [0,19], slideElapsed in [0,15000) also when
\* finished, totalElapsed in [0,300000].
C6_Original ==
  /\ timerState.currentSlide \in 0 .. (TOTAL_SLIDES - 1)
  /\ timerState.slideElapsed >= 0
  /\ timerState.slideElapsed < SLIDE_DURATION_MS
  /\ timerState.totalElapsed \in 0 .. TOTAL_DURATION_MS

\* C6 as amended: currentSlide in [0,19]; totalElapsed in [0,300000];
\* slideElapsed in [0,15000) while not finished, and exactly 15000 on slide 19
\* in the finished state.
C6_Ranges ==
  /\ timerState.currentSlide \in 0 .. (TOTAL_SLIDES - 1)
  /\ timerState.totalElapsed \in 0 .. TOTAL_DURATION_MS
  /\ timerState.slideElapsed >= 0
  /\ ~timerState.isFinished => timerState.slideElapsed < SLIDE_DURATION_MS
  /\ timerState.isFinished =>
       /\ timerState.slideElapsed = SLIDE_DURATION_MS
       /\ timerState.currentSlide = TOTAL_SLIDES - 1

\* The finished state is published, with the effective elapsed time past the
\* total duration.
C6_Witness == timerState.isFinished /\ GetEffectiveElapsed > TOTAL_DURATION_MS

\* C7: while the timer is paused the effective elapsed time does not change as
\* the clock advances; pause() and resume() (directly or through
\* togglePause) leave it as it was at that instant; while running it advances
\* with the clock.
C7_PauseFreezes ==
  [][/\ (now' # now /\ pausedAt # NULL) => ElapsedNext = GetEffectiveElapsed
     /\ (now' # now /\ pausedAt = NULL) =>
          ElapsedNext = GetEffectiveElapsed + (now' - now)
     /\ (Pause \/ Resume \/ TogglePause) => ElapsedNext = GetEffectiveElapsed]_vars

\* The timer runs again after a pause that lasted, with time run before it.
C7_Witness ==
  /\ pausedAt = NULL
  /\ totalPausedMs > 0
  /\ seeks = 0
  /\ GetEffectiveElapsed > 0
  /\ GetEffectiveElapsed < now - startTime

\* The clamp the specification gives for a seek index.
ExpectedIndex(i) ==
  IF i < 0 THEN 0 ELSE IF i > TOTAL_SLIDES - 1 THEN TOTAL_SLIDES - 1 ELSE i

\* What a seek on a paused timer publishes at once.
SeekPublishes(i) ==
  pausedAt # NULL =>
    /\ timerState'.currentSlide = ExpectedIndex(i)
    /\ timerState'.slideElapsed = 0
    /\ timerState'.isPaused

\* C8 as stated: goToSlide(i) makes the next tick publish slide clamp(i) with
\* slideElapsed = 0, at once when paused.
C8_Original ==
  [][/\ \A i \in SeekTargets : GoToSlideWith(i) => SeekPublishes(i)
     /\ (Tick /\ lastSeek # NULL) =>
          /\ timerState'.currentSlide = lastSeek[1]
          /\ timerState'.slideElapsed = 0]_vars

\* C8 as amended: goToSlide(i) sets the effective elapsed time to
\* clamp(i) * 15000 at the call, published at once as (clamp(i), 0) when
\* paused; the next tick publishes the state of clamp(i) * 15000 plus the time
\* the timer has run since the call.
C8_SeekLands ==
  [][/\ \A i \in SeekTargets : GoToSlideWith(i) =>
          /\ ElapsedNext = ExpectedIndex(i) * SLIDE_DURATION_MS
          /\ SeekPublishes(i)
     /\ (Tick /\ lastSeek # NULL) =>
          timerState'.totalElapsed =
            Min(lastSeek[1] * SLIDE_DURATION_MS + lastSeek[2], TOTAL_DURATION_MS)]_vars

\* A seek past the last slide on a paused timer has published (19, 0).
C8_Witness ==
  /\ seeks > 0
  /\ timerState.isPaused
  /\ timerState.currentSlide = TOTAL_SLIDES - 1
  /\ timerState.slideElapsed = 0

\* C10: a tick leaves a frame scheduled only if the state it computed is
\* neither finished nor paused; and no frame scheduled before a pause(), a
\* reset() or the teardown is left pending by it: no frame is pending while
\* paused or after unmount, and none that rafIdRef cannot cancel.
C10_NoStaleTick ==
  /\ [](/\ rafOrphans = 0
        /\ pausedAt # NULL => ~rafCurrent
        /\ ~mounted => ~rafCurrent)
  /\ [][Tick => (rafCurrent' =>
                   ~timerState'.isFinished /\ ~timerState'.isPaused)]_vars

\* Paused again after a reset, with nothing pending.
C10_Witness ==
  mounted /\ pausedAt # NULL /\ pauses > 0 /\ restarts > 0 /\ ~rafCurrent

\* C2: recorder.stopRecording() is called at most once per presentation.
C2_StopOnce == stopCalls <= 1

\* Capture was finalized by the finish callback and is still awaited, and an
\* Escape or Stop came after it.
C2_Witness ==
  /\ stopCalls = 1
  /\ awaiter = "finish"
  /\ stopPhase # "idle"
  /\ cancelled

\* C3 as stated: onExit, onFinish and the relinquishing exitFullscreen are
\* called only when no stopRecording() is unresolved.
C3_FinalizeBeforeRelinquish ==
  [][(exitCalls' > exitCalls \/ finishNotes' > finishNotes \/ fsExits' > fsExits)
       => stopPhase' = "idle"]_vars

\* C9 as stated: no tick runs after Escape or Stop on a started presentation.
C9_NoTickAfterCancel == ~tickedAfterCancel

\* C11 as stated: a seek cancels the pending tick, so no frame that was
\* scheduled before the latest seek is still pending after it.
C11_SeekCancels == ~staleFrame

\* C12 as stated: once onFinish has been invoked, no frame is scheduled (so no
\* tick can run) until reset().
C12_NoFrameAfterFinish == firedSinceReset => (~rafCurrent /\ rafOrphans = 0)

\* C13 as stated: the overlays drawn on the capture surface follow the order
\* of the timer states they were computed from; no image load completes with
\* an overlay older than one already drawn.
C13_OverlayInOrder == ~regressed

\* C14 as stated: drawSlide is called only when the slide index changes; a
\* render whose slide index is the one last drawn makes no drawSlide call.
C14_DrawOnlyOnChange == ~redundantDraw

\* C15 as stated: while the view is mounted and a capture session is active
\* (the recorder is recording or paused), the recorder is paused exactly when
\* the published timer state is paused.
C15_PauseMirrored ==
  (mounted /\ (recorder = "recording" \/ recorder = "paused")) =>
    (recorder = "paused" <=> timerState.isPaused)

\* C16 as stated: startRecording is called at most once, and once
\* finalize has resolved the session is destroyed: no recorder is held and
\* no canvas or audio track is live.
C16_OneSessionDestroyedOnce ==
  /\ startCalls <= 1
  /\ (stopCalls >= 1 /\ stopPhase = "idle") =>
       (recorder = "null" /\ ~surface /\ ~audioHeld)

\* The recorder holds a started session.
SessionActive(rec) == rec = "recording" \/ rec = "paused"

\* C17: with audio given, startRecording makes no microphone request, leaves
\* micDenied false and starts the recorder at once; without it, it requests
\* the microphone and starts nothing before the answer; on denial it sets
\* micDenied and still starts the recorder (without audio), on grant it
\* clears micDenied and starts it with audio; and the stop of a session
\* started after a denial resolves as any other: to the data that arrived,
\* or to none if none arrived.
C17_AudioPath ==
  [][/\ (HandleStart /\ Supported /\ props.audioGiven) =>
          /\ ~micRequested' /\ ~micPending' /\ ~micDenied'
          /\ audioHeld' /\ SessionActive(recorder') /\ isRecording'
     /\ (HandleStart /\ Supported /\ ~props.audioGiven) =>
          /\ micRequested' /\ micPending'
          /\ recorder' = "null" /\ ~isRecording'
     /\ (MicResolve /\ micAnswer = "deny") =>
          /\ micDenied' /\ ~audioHeld'
          /\ SessionActive(recorder') /\ isRecording'
     /\ (MicResolve /\ micAnswer = "grant") =>
          /\ ~micDenied' /\ audioHeld'
          /\ SessionActive(recorder') /\ isRecording'
     /\ (micDenied /\ stopPhase # "idle" /\ stopPhase' = "idle") =>
          lastResult' = IF arrivals' # <<>>
                        THEN [kind |-> "blob", data |-> arrivals']
                        ELSE [kind |-> "none", data |-> <<>>]]_vars

\* A video-only session, started after a denial, was stopped and its data
\* delivered.
C17_Witness ==
  /\ micDenied /\ micRequested
  /\ stopPhase = "idle" /\ stopCalls = 1
  /\ lastResult.kind = "blob"
  /\ delivered = 1

\* C18: when the runtime supports no candidate, startRecording creates
\* nothing and asks for nothing (no recorder, no surface, no microphone
\* request, isRecording false, no error), the start gesture still starts the
\* timer, the tick that finishes still arms the display hold at once, and
\* the hold still notifies the caller.
C18_NoCapabilityNoOp ==
  /\ [](capability = "none" =>
          /\ recorder = "null" /\ ~isRecording /\ ~surface /\ ~audioHeld
          /\ ~micPending /\ ~micRequested /\ ~micDenied
          /\ ~sessionErrored /\ delivered = 0)
  /\ [][capability = "none" =>
          /\ HandleStart => (startCalls' = 1 /\ rafCurrent' /\ pausedAt' = NULL)
          /\ (ScreenTick /\ timerState'.isFinished /\ ~hasFinished) =>
               (now + HOLD_MS \in holdDue' /\ stopPhase' = "idle")
          /\ HoldFire => finishNotes' = finishNotes + 1]_vars

\* Without capture capability, the presentation has run to its finish and the
\* caller was notified.
C18_Witness ==
  /\ capability = "none"
  /\ startCalls = 1
  /\ timerState.isFinished
  /\ finishNotes = 1
  /\ lastResult.kind = "none"

\* C19: a runtime error of the recorder releases the session at once (no
\* recorder, no surface, no audio or canvas track, no cached image,
\* isRecording false) and leaves the timer and the pending exits as they
\* were; the stop that follows an error resolves at once to none, and no
\* recording of an errored session is delivered.
C19_ErrorTearsDown ==
  /\ [](sessionErrored =>
          (delivered = 0 /\ (lastResult.kind = "unset" \/ lastResult.kind = "none")))
  /\ [][/\ RecError =>
            /\ recorder' = "null" /\ ~isRecording' /\ ~surface' /\ ~audioHeld'
            /\ ~lastImage'
            /\ UNCHANGED <<timerVars, waiting, holdDue, fsThen, stopPhase>>
        /\ (sessionErrored /\ stopCalls' > stopCalls) =>
            (lastResult'.kind = "none" /\ stopPhase' = "idle")]_vars

\* After an error the presentation ran to its finish, the stop resolved to
\* none and the caller was notified.
C19_Witness ==
  /\ sessionErrored
  /\ timerState.isFinished
  /\ stopCalls = 1
  /\ lastResult.kind = "none"
  /\ finishNotes = 1

\* C20: stopRecording resolves at once to none when no session is active;
\* otherwise it resolves, after the recorder's stop event, to the data events
\* of non-zero size in arrival order, or to none if there are none; it never
\* resolves to a result without data.
C20_StopResult ==
  /\ [](lastResult.kind = "blob" => lastResult.data # <<>>)
  /\ [][/\ (stopCalls' > stopCalls /\ ~SessionActive(recorder)) =>
            (lastResult' = [kind |-> "none", data |-> <<>>] /\ stopPhase' = "idle")
        /\ (stopCalls' > stopCalls /\ SessionActive(recorder)) =>
            (lastResult' = lastResult /\ stopPhase' = "awaitStopEvent")
        /\ (stopPhase # "idle" /\ stopPhase' = "idle") =>
            lastResult' = IF arrivals' # <<>>
                          THEN [kind |-> "blob", data |-> arrivals']
                          ELSE [kind |-> "none", data |-> <<>>]]_vars

\* A stop has resolved to two data events, a timeslice one and the last one.
C20_Witness ==
  /\ lastResult.kind = "blob"
  /\ Len(lastResult.data) = 2
  /\ delivered = 1

\* C21: the duration pass is made exactly for a WebM blob of non-zero size
\* (never for MP4, never for an empty blob); whether it succeeds or fails,
\* stopRecording then resolves to the same media data, and the session is
\* torn down (no recorder, surface, audio or isRecording left).
C21_FixFallback ==
  /\ [](fixed # "no" => (capability = "webm" /\ lastResult.kind = "blob"))
  /\ []((capability = "webm" /\ lastResult.kind = "blob") => fixed # "no")
  /\ [][(stopPhase # "idle" /\ stopPhase' = "idle") =>
          /\ lastResult' = IF arrivals' # <<>>
                            THEN [kind |-> "blob", data |-> arrivals']
                            ELSE [kind |-> "none", data |-> <<>>]
          /\ stopPhase = "awaitFix" =>
               fixed' = (IF fixAnswer = "ok" THEN "done" ELSE "failed")
          /\ recorder' = "null" /\ ~surface' /\ ~audioHeld' /\ ~isRecording'
          /\ ~lastImage']_vars

\* The duration pass failed and the stop still resolved to the recording,
\* which was delivered.
C21_Witness ==
  /\ fixed = "failed"
  /\ lastResult.kind = "blob"
  /\ delivered = 1
  /\ recorder = "null" /\ ~surface /\ ~audioHeld

\* The finish callback has fired, capture was finalized once and resolved to a
\* recording, which the caller received once, and after the hold the caller
\* was notified once.
ScenarioDone ==
  /\ firedSinceReset
  /\ stopCalls = 1 /\ stopPhase = "idle"
  /\ lastResult.kind = "blob" /\ lastResult.data # <<>>
  /\ delivered = 1
  /\ finishNotes = 1
  /\ holdDue = {}

\* C22 as stated: with recording enabled and the audio request granted, once
\* the timer runs, the presentation eventually reaches the finish with capture
\* finalized, one non-empty recording delivered and the caller notified after
\* the hold.
C22_ScenarioA == (pausedAt = NULL) ~> ScenarioDone

\* A handler's finalizeRecording() has a recorder to stop, so it stays
\* pending until the recorder's stop event.
MustAwaitStop == recorderStarted /\ SessionActive(recorder)

\* No caller is notified and no fullscreen is left in this step.
NoNotice == UNCHANGED <<finishNotes, exitCalls, fsExits, fsThen>>

\* The exit of the Escape handler and handleExit is made in this step.
ExitsHere ==
  IF props.manageFullscreen
  THEN fsExits' = fsExits + 1 /\ fsThen' = fsThen + 1 /\ exitCalls' = exitCalls
  ELSE exitCalls' = exitCalls + 1 /\ UNCHANGED <<fsExits, fsThen>>

C24_NotifyOnce == finishNotes + exitCalls <= 1

\* C25: pause() on a paused timer and resume() on a running one change no
\* ref (start time, pausedAt, paused total, manual offset, fired flag),
\* schedule and cancel no frame and publish nothing; togglePause() always
\* turns a running timer into a paused one and a paused one into a running
\* one, and publishes that as isPaused.
C25_PauseResumeIdempotent ==
  [][/\ ((Pause /\ pausedAt # NULL) \/ (Resume /\ pausedAt = NULL)) =>
          UNCHANGED <<startTime, pausedAt, totalPausedMs, manualOffset, hasFinished,
                      rafCurrent, rafOrphans, timerState>>
     /\ TogglePause =>
          /\ (pausedAt' = NULL) # (pausedAt = NULL)
          /\ timerState'.isPaused = (pausedAt' # NULL)]_vars

\* The timer was paused a second time some time ago, after a pause that
\* lasted: a further pause() would show in pausedAt.
C25_Witness ==
  /\ mounted
  /\ pausedAt # NULL
  /\ pauses = 2
  /\ totalPausedMs > 0
  /\ now > pausedAt[1]

\* The timer's refs, its frames and its published state are as they were.
TimerUntouched ==
  UNCHANGED <<startTime, pausedAt, totalPausedMs, manualOffset, hasFinished,
              rafCurrent, rafOrphans, timerState>>

\* The step lands on the start of slide k: the effective elapsed time is
\* k * 15000, published at once (slide k, slideElapsed 0) when paused.
LandsOn(k) ==
  /\ ElapsedNext = k * SLIDE_DURATION_MS
  /\ pausedAt # NULL =>
       (timerState'.currentSlide = k /\ timerState'.slideElapsed = 0)

\* C26: with current the slide of the present effective elapsed time,
\* nextSlide() changes nothing when current = 19 and otherwise seeks to the
\* start of slide current + 1; prevSlide() changes nothing when current = 0
\* and otherwise seeks to the start of slide current - 1.
C26_NextPrev ==
  [][LET current == ExpectedFields(GetEffectiveElapsed).currentSlide
     IN /\ NextSlide =>
             IF current = TOTAL_SLIDES - 1 THEN TimerUntouched
             ELSE LandsOn(current + 1)
        /\ PrevSlide =>
             IF current = 0 THEN TimerUntouched ELSE LandsOn(current - 1)]_vars

\* nextSlide() on a timer paused in slide 6 has published the start of
\* slide 7.
C26_Witness ==
  /\ seeks = 1
  /\ pausedAt # NULL
  /\ timerState.currentSlide = 7
  /\ timerState.slideElapsed = 0
  /\ GetEffectiveElapsed = 7 * SLIDE_DURATION_MS

\* The timer is paused, publishes isPaused and has no frame pending.
HeldPaused ==
  /\ pausedAt # NULL
  /\ timerState.isPaused
  /\ ~rafCurrent /\ rafOrphans = 0

\* The timer is held paused at elapsed time 0.
HeldAtZero == HeldPaused /\ GetEffectiveElapsed = 0

\* A call that starts the timer anew or lets it run.
Releases == Resume \/ TogglePause \/ Reset \/ AutoStartChange

\* A start with autoStart = false leaves the timer held at zero.
StartsHeld ==
  /\ ~autoStart => HeldAtZero
  /\ [][(AutoStartChange /\ ~autoStart') => HeldAtZero']_vars

\* C27 as stated: a timer started with autoStart = false is held paused at
\* elapsed time 0 with no frame pending, and stays so whatever else happens
\* until resume(), togglePause() or reset() (or a new start).
C27_Original ==
  /\ StartsHeld
  /\ [][(HeldAtZero /\ ~Releases) => HeldAtZero']_vars

\* C27 as amended: a timer started with autoStart = false is held paused at
\* elapsed time 0 with no frame pending; it stays paused, publishing isPaused,
\* with no frame pending until resume(), togglePause() or reset() (or a new
\* start), and its elapsed time stays 0 until one of those or a seek.
C27_HeldUntilReleased ==
  /\ StartsHeld
  /\ [][(HeldPaused /\ ~Releases) => HeldPaused']_vars
  /\ [][(HeldAtZero /\ ~Releases /\ ~(GoToSlide \/ NextSlide \/ PrevSlide))
          => HeldAtZero']_vars

\* Started with autoStart = false and never released: 200 s later the timer
\* is still held at zero.
C27_Witness ==
  /\ ~autoStart
  /\ restarts = 0 /\ seeks = 0
  /\ pausedAt = Some(startTime)
  /\ now >= 200000
  /\ HeldAtZero

\* C28: reset(), from whatever state, leaves a fresh running session: start
\* time now, not paused, paused total and manual offset 0, fired flag clear,
\* effective elapsed time 0, the initial state published (slide 0, elapsed 0,
\* not paused, not finished), and exactly one frame pending, the one it
\* requested.
C28_ResetFresh ==
  [][Reset =>
       /\ startTime' = now' /\ pausedAt' = NULL
       /\ totalPausedMs' = 0 /\ manualOffset' = 0
       /\ ~hasFinished'
       /\ ElapsedNext = 0
       /\ timerState' = [currentSlide |-> 0, slideElapsed |-> 0, totalElapsed |-> 0,
                         isPaused |-> FALSE, isFinished |-> FALSE]
       /\ rafCurrent' /\ rafOrphans' = 0]_vars

\* A fresh session at a time when the first one would have been over, after
\* a seek and a pause.
C28_Witness ==
  /\ restarts = 1 /\ seeks = 1 /\ pauses >= 1
  /\ now >= TOTAL_DURATION_MS
  /\ startTime = now /\ pausedAt = NULL
  /\ totalPausedMs = 0 /\ manualOffset = 0
  /\ timerState = InitialState
  /\ rafCurrent /\ rafOrphans = 0

\* What a call of the drawing functions can touch is as it was.
CaptureUntouched ==
  UNCHANGED <<recorder, isRecording, surface, audioHeld, lastImage, pendingLoads,
              drawnStamp, chunks, blob>>

\* C29: drawSlide and updateOverlay called without a surface change nothing
\* of the capture hook (no load started, nothing drawn, no frame pushed);
\* updateOverlay changes nothing either while no image is cached; with a
\* surface and a cached image it draws the given overlay over the cached image,
\* which stays the cached one, and starts no load.
C29_DrawWithoutSession ==
  [][\A stamp \in {timerState.totalElapsed, HookStamp} :
       /\ (CallDrawSlideWith(stamp) /\ ~surface) => CaptureUntouched
       /\ (CallUpdateOverlayWith(stamp) /\ ~(surface /\ lastImage)) => CaptureUntouched
       /\ (CallUpdateOverlayWith(stamp) /\ surface /\ lastImage) =>
            /\ drawnStamp' = stamp
            /\ Len(pendingLoads') = Len(pendingLoads)
            /\ UNCHANGED <<recorder, isRecording, surface, audioHeld, lastImage,
                           chunks, blob>>]_vars

\* A client's updateOverlay has drawn its overlay over the cached image of a
\* running session.
C29_Witness ==
  /\ surface /\ lastImage
  /\ SessionActive(recorder)
  /\ drawnStamp = HookStamp

\* C30: setPaused(p) leaves the device as it is when there is no recorder,
\* when the recorder is inactive, and when it is already paused (p) or
\* already recording (not p); otherwise it makes the one transition asked
\* for: recording to paused (p) or paused to recording (not p).  It touches
\* nothing else.
C30_SetPausedIdempotent ==
  [][\A p \in BOOLEAN :
       CallSetPausedWith(p) =>
         /\ recorder' =
              (IF recorder = "recording" /\ p THEN "paused"
               ELSE IF recorder = "paused" /\ ~p THEN "recording"
               ELSE recorder)
         /\ UNCHANGED <<isRecording, surface, audioHeld, lastImage, chunks,
                        stopPhase>>]_vars

\* A client has paused the recorder of a session whose timer runs.
C30_Witness ==
  /\ mounted
  /\ recorder = "paused"
  /\ ~timerState.isPaused
  /\ pausedAt = NULL

\* The distance between a and b.
Dist(a, b) == IF a > b THEN a - b ELSE b - a

\* C31: for every first slide of w by h (w, h > 0) the canvas startRecording
\* makes is at most 1280 wide and 720 high; it is w by h when the slide fits;
\* otherwise one side is at its cap and the other is the slide's proportional
\* side rounded to a nearest integer (width 1280 and height within 1/2 of
\* 1280 * h / w, or height 720 and width within 1/2 of 720 * w / h).
C31_SurfaceCapped ==
  [][(HandleStart /\ surface') =>
       LET w == firstSlide.width
           h == firstSlide.height
           cw == canvasSize'.width
           ch == canvasSize'.height
       IN /\ cw <= 1280 /\ ch <= 720
          /\ (w <= 1280 /\ h <= 720) => (cw = w /\ ch = h)
          /\ ~(w <= 1280 /\ h <= 720) =>
               \/ cw = 1280 /\ 2 * Dist(ch * w, 1280 * h) <= w
               \/ ch = 720 /\ 2 * Dist(cw * h, 720 * w) <= h]_vars

\* A slide both too wide and, once its width is capped, still too high was
\* given a canvas 720 high and narrower than 1280.
C31_Witness ==
  /\ surface
  /\ firstSlide.width > 1280
  /\ canvasSize.height = 720
  /\ canvasSize.width < 1280
  /\ canvasSize.width > 0

\* C32: for every overlay with currentSlide c and slideSecondsLeft s, the
\* progress segments drawn are, for each i in 0 .. totalSlides - 1: filled
\* whole when i < c, filled to clamp(1 - s/15, 0, 1) of its width when i = c
\* (none for s >= 15, all for s <= 0, (15 - s)/15 between), and not filled
\* when i > c.
C32_SegmentFill ==
  /\ DOMAIN segments = 0 .. (overlay.totalSlides - 1)
  /\ \A i \in DOMAIN segments :
       LET c == overlay.currentSlide
           sl == overlay.slideSecondsLeft
       IN /\ i < c => segments[i] = 15
          /\ i > c => segments[i] = 0
          /\ i = c => segments[i] =
                         (IF sl >= 15 THEN 0 ELSE IF sl <= 0 THEN 15 ELSE 15 - sl)

\* An overlay of slide 7 with 4 seconds left was drawn: seven segments
\* whole, the eighth to 11/15, the rest empty.
C32_Witness ==
  /\ overlay.totalSlides = 20
  /\ overlay.currentSlide = 7
  /\ overlay.slideSecondsLeft = 4
  /\ segments[6] = 15 /\ segments[7] = 11 /\ segments[8] = 0

\* An overlay within its ranges: an integer countdown in 0 .. 15, a slide
\* index in 0 .. 19 and 20 slides.
InRanges(o) ==
  /\ o.slideSecondsLeft \in 0 .. 15
  /\ o.currentSlide \in 0 .. 19
  /\ o.totalSlides = 20

\* C33: for every published timer state, the overlay made from it has
\* slideSecondsLeft = ceil((15000 - slideElapsed) / 1000), an integer in
\* 0 .. 15, currentSlide in 0 .. 19 and totalSlides = 20; and so has every
\* overlay drawn on the capture surface.
C33_OverlayRanges ==
  /\ InRanges(MakeOverlay(timerState))
  /\ LET left == MakeOverlay(timerState).slideSecondsLeft
         ms == 15000 - timerState.slideElapsed
     IN 1000 * (left - 1) < ms /\ ms <= 1000 * left
  /\ MakeOverlay(timerState).currentSlide = timerState.currentSlide
  /\ overlay # NoOverlayInfo => InRanges(overlay)

\* The overlay of a state 9600 ms into slide 7 is on the surface: the
\* countdown is 6.
C33_Witness ==
  /\ overlay = MakeOverlay(timerState)
  /\ timerState.slideElapsed = 9600
  /\ overlay.currentSlide = 7
  /\ overlay.slideSecondsLeft = 6

\* A seek that calls goToSlide is made on a timer whose finish has fired.
SeekAfterFinish ==
  /\ hasFinished
  /\ GoToSlide \/ PrevSlide

\* What a seek after the finish does at once: the fired-finish flag is
\* cleared, and on a paused timer the state of the target slide is published,
\* not finished.
ReopensAtOnce ==
  /\ ~hasFinished'
  /\ pausedAt # NULL => ~timerState'.isFinished

\* A tick that computes the finished state after a seek has re-opened a
\* finished session invokes the callback again.
FiresAgain ==
  (Tick /\ firedSinceReset /\ ~hasFinished /\ timerState'.isFinished) =>
    (finishCalls' = finishCalls + 1 /\ hasFinished')

\* C34 as stated: a goToSlide after the finish has fired clears the
\* fired-finish flag; the next tick publishes isFinished = false; and a later
\* tick at which the clamped elapsed time reaches 300000 ms invokes the
\* callback again.
C34_Original ==
  [][/\ SeekAfterFinish => ReopensAtOnce
     /\ (Tick /\ lastSeek # NULL /\ firedSinceReset) => ~timerState'.isFinished
     /\ FiresAgain]_vars

\* C34 as amended: a goToSlide after the finish has fired clears the
\* fired-finish flag, publishing the target slide at once (not finished) when
\* paused; the next tick publishes isFinished = false if the timer has run
\* less than 300000 - clamp(i) * 15000 ms since the seek, and otherwise
\* publishes the finished state; the first tick that computes the finished
\* state after the seek invokes the callback again.
C34_SeekReopens ==
  [][/\ SeekAfterFinish => ReopensAtOnce
     /\ (Tick /\ lastSeek # NULL /\ firedSinceReset) =>
          (timerState'.isFinished <=>
             lastSeek[1] * SLIDE_DURATION_MS + lastSeek[2] >= TOTAL_DURATION_MS)
     /\ FiresAgain]_vars

\* The one seek of the run was made when the timer had run the total
\* duration or more (the offset it left takes at least that much back), and
\* since that seek the callback has fired: a second time.
C34_Witness ==
  /\ seeks = 1
  /\ manualOffset <= 0 - TOTAL_DURATION_MS
  /\ firedSinceReset
  /\ finishCalls = 1
  /\ hasFinished
  /\ timerState.isFinished

\* C35: startRecording is called only by the start gesture and only with
\* recording enabled; with recording disabled, on a runtime that could
\* record, no session is ever made (no recorder, surface, audio stream or
\* microphone request, isRecording false, the started flag never set),
\* stopRecording is never called, the draw, overlay and pause effects never
\* call the capture hook (nothing is drawn or loaded), and no recording is
\* delivered.
C35_DisabledNoCapture ==
  /\ [][startCalls' # startCalls =>
          (HandleStart /\ props.recordingEnabled /\ startCalls' = startCalls + 1)]_vars
  /\ [](~props.recordingEnabled =>
          /\ startCalls = 0 /\ ~recorderStarted
          /\ recorder = "null" /\ ~surface /\ ~audioHeld /\ ~isRecording
          /\ ~micPending /\ ~micRequested
          /\ stopCalls = 0 /\ lastResult.kind = "unset"
          /\ drawnSlideIdx = NoOverlay /\ prevSeconds = NoOverlay
          /\ drawnStamp = NoOverlay /\ overlay = NoOverlayInfo
          /\ pendingLoads = <<>> /\ ~lastImage
          /\ delivered = 0)

\* With recording disabled on a runtime that could record, the presentation
\* was started, paused and resumed, ran to its finish and notified the
\* caller.
C35_Witness ==
  /\ ~props.recordingEnabled
  /\ Supported
  /\ ~waiting
  /\ pauses > 0
  /\ timerState.isFinished
  /\ finishNotes = 1
  /\ startCalls = 0 /\ stopCalls = 0

\* C36 as stated: while the screen is waiting for the start gesture the
\* timer is held (paused at elapsed time 0, no frame pending), the finish
\* callback has not fired, no hold is pending and the caller has not been
\* notified of a finish, whatever keys were pressed.
C36_WaitingHoldsTimer ==
  waiting =>
    /\ pausedAt # NULL
    /\ GetEffectiveElapsed = 0
    /\ ~rafCurrent /\ rafOrphans = 0
    /\ ~firedSinceReset
    /\ holdDue = {}
    /\ finishNotes = 0

\* C37 as stated: when the microphone request settles after a finalize has
\* run during it (the started flag is already cleared again), no session is
\* left live: no recorder is recording or paused, no audio stream is held,
\* no surface is left and isRecording is false.
C37_NoSessionAfterRace ==
  [][(MicResolve /\ ~recorderStarted) =>
       /\ ~SessionActive(recorder')
       /\ ~audioHeld'
       /\ ~surface'
       /\ ~isRecording']_vars

\* The frame callbacks that are pending.
PendingFrames == (IF rafCurrent THEN 1 ELSE 0) + rafOrphans

\* C38: at every moment at most one tick is pending, whatever sequence of
\* pause, resume, togglePause, goToSlide, nextSlide, prevSlide, reset and
\* autoStart changes was made; and a step that leaves a number of pending
\* ticks other than one is never a step that schedules a tick (a resume of a
\* paused timer, a reset, a start with autoStart = true, a tick that
\* reschedules itself).
C38_OnePendingTick ==
  /\ [](PendingFrames <= 1)
  /\ [][PendingFrames' # 1 =>
         ~(\/ (restarts' # restarts /\ (Reset \/ (autoStart' /\ AutoStartChange)))
           \/ (pausedAt # NULL /\ pausedAt' = NULL /\ (Resume \/ TogglePause))
           \/ (pausedAt = NULL /\ ~timerState'.isFinished /\ Tick))]_vars

\* After a seek, a reset and a pause that lasted, the resumed timer has its
\* one frame pending.
C38_Witness ==
  /\ mounted
  /\ seeks = 1 /\ restarts = 1 /\ pauses >= 1
  /\ pausedAt = NULL
  /\ totalPausedMs > 0
  /\ PendingFrames = 1

\* The stopwatch's time, within the presentation.
IdealTotal(e) ==
  IF e < 0 THEN 0 ELSE IF e > TOTAL_DURATION_MS THEN TOTAL_DURATION_MS ELSE e

\* What a display reading the stopwatch shows.
IdealState(e, paused) ==
  LET t == IdealTotal(e)
      slide == IF t \div SLIDE_DURATION_MS < TOTAL_SLIDES - 1
               THEN t \div SLIDE_DURATION_MS ELSE TOTAL_SLIDES - 1
  IN [currentSlide |-> slide,
      slideElapsed |-> t - slide * SLIDE_DURATION_MS,
      totalElapsed |-> t,
      isPaused |-> paused,
      isFinished |-> t >= TOTAL_DURATION_MS]

\* C39: the timer is drift-free.  Its effective elapsed time is at every
\* moment what a stopwatch driven by the same start, pause, resume, seek and
\* reset calls shows, whatever ticks ran and whenever they ran; a tick
\* changes neither, and publishes the state that belongs to that time
\* clamped to [0, 300000] (so do the ticks a seek runs at once on a paused
\* timer).
C39_DriftFree ==
  /\ [](GetEffectiveElapsed = idealElapsed)
  /\ [][/\ (now' = now /\ seeks' = seeks /\ Tick) =>
            /\ UNCHANGED <<startTime, pausedAt, totalPausedMs, manualOffset,
                           idealElapsed>>
            /\ timerState' = IdealState(idealElapsed, pausedAt # NULL)
        /\ (seeks' # seeks /\ timerState' # timerState) =>
            timerState' = IdealState(idealElapsed', pausedAt' # NULL)]_vars

\* After a pause that lasted and a seek, a tick has published the
\* stopwatch's time, which is neither the time since the start nor the
\* seek's target.
C39_Witness ==
  /\ seeks = 1 /\ totalPausedMs > 0
  /\ pausedAt = NULL
  /\ timerState.totalElapsed = idealElapsed
  /\ idealElapsed # now - startTime
  /\ idealElapsed % SLIDE_DURATION_MS # 0
  /\ idealElapsed < TOTAL_DURATION_MS

\* C40: the published timerState.isPaused always equals whether the engine
\* is paused (the paused-at timestamp is set), after every start, pause,
\* resume, togglePause, goToSlide, reset and tick.
C40_PausedPublished ==
  mounted => (timerState.isPaused = (pausedAt # NULL))

====
